---- MODULE Spec2Model ----
(***************************************************************************)
(* Sermon Search: ingestion of YouTube transcripts (single video and       *)
(* playlist), the transcript store, and the identifier extractor.          *)
(* Text is modelled as a sequence of one-character strings.                *)
(***************************************************************************)
EXTENDS Integers, Sequences, FiniteSets, TLC

VARIABLES
    \* ---- identifier extractor (SpecUrl)
    url,                 \* the URL handed to extract_video_id
    url_id,              \* the <ID> the URL was built around
    extracted,           \* what extract_video_id returned or raised
    \* ---- the application (Spec)
    db,                  \* the backing store: tables transcripts, categories
    current_command,     \* st.session_state.current_command
    show_transcript_id,  \* st.session_state.show_transcript_id
    form_video,          \* video whose View Existing / Re-process form is on screen
    pc,                  \* where the running script is; "idle" between runs
    clicked,             \* the widget whose click started the last run
    flow,                \* what the last process_single_video call did
    run_end,             \* how the last script run ended
    runs,                \* the number of "Process" clicks so far
    playlist,            \* the playlist run: its loop variables and its history
    writes,              \* history: the arguments of the last successful insert_transcript per video
    \* ---- the identifier extractor on any URL (SpecIds)
    extracted_playlist,  \* what _extract_playlist_id returned or raised
    \* ---- the analytics engine (SpecText)
    input_text,          \* the transcript text handed to an analytics or categorization function
    result,              \* the last CommandParser call: function, arguments, outcome
    \* ---- the Database object (SpecDb)
    database,            \* Database.__init__: how construction went
    outage,              \* the number of coming connection attempts the store refuses
    db_call,             \* the last Database operation: its store failures and outcome
    assigned,            \* history: the categories of the last successful update_categories per video
    \* ---- the categorization (SpecAi)
    ai_call,             \* the last AI helper call and what it returned
    \* ---- the cue list TranscriptProcessor keeps (SpecCues)
    last_transcript,     \* TranscriptProcessor._last_transcript
    cue_history          \* history: the cue list of the most recent non-raw extract_transcript call

urlVars == <<url, url_id, extracted>>

idVars == <<extracted_playlist>>

textVars == <<input_text, result>>

storeVars == <<database, outage, db_call, assigned>>

aiVars == <<ai_call>>

cueVars == <<last_transcript, cue_history>>

otherVars == <<idVars, textVars, storeVars, aiVars, cueVars>>

appVars == <<db, current_command, show_transcript_id, form_video, pc, clicked,
             flow, run_end, runs, playlist, writes>>

vars == <<urlVars, appVars, otherVars>>

None == "None"

(***************************************************************************)
(* Characters and text                                                     *)
(***************************************************************************)
\* the character class [0-9A-Za-z_-] of the video and playlist patterns
IdChars == {"0", "1", "2", "3", "4", "5", "6", "7", "8", "9", "A", "B", "C", "D", "E", "F", "G", "H", "I", "J", "K", "L", "M", "N", "O", "P", "Q", "R", "S", "T", "U", "V", "W", "X", "Y", "Z", "a", "b", "c", "d", "e", "f", "g", "h", "i", "j", "k", "l", "m", "n", "o", "p", "q", "r", "s", "t", "u", "v", "w", "x", "y", "z", "_", "-"}

\* str.split() white space
Whitespace == {" ", "\n", "\t"}

\* s[i:i+len(p)] == p
HasAt(s, i, p) ==
    /\ i >= 1
    /\ i + Len(p) - 1 <= Len(s)
    /\ \A k \in 1..Len(p) : s[i + k - 1] = p[k]

(***************************************************************************)
(* TranscriptProcessor.extract_video_id                                    *)
(***************************************************************************)
\* {11} in the three patterns
IdLen == 11

\* ([0-9A-Za-z_-]{11}) matched at position g
IdGroupAt(s, g) ==
    /\ g >= 1
    /\ g + IdLen - 1 <= Len(s)
    /\ \A k \in g..(g + IdLen - 1) : s[k] \in IdChars

\* r'(?:v=|\/)([0-9A-Za-z_-]{11}).*' tried at position i: where group 1
\* starts, 0 when the pattern does not match there
VideoPattern1_NoQuery(s, i) ==
    IF HasAt(s, i, <<"/">>) /\ IdGroupAt(s, i + 1) THEN i + 1 ELSE 0

VideoPattern1(s, i) ==
    IF HasAt(s, i, <<"v", "=">>) /\ IdGroupAt(s, i + 2) THEN i + 2
    ELSE IF HasAt(s, i, <<"/">>) /\ IdGroupAt(s, i + 1) THEN i + 1
    ELSE 0

\* r'(?:embed\/)([0-9A-Za-z_-]{11})'
VideoPattern2(s, i) ==
    IF HasAt(s, i, <<"e", "m", "b", "e", "d", "/">>) /\ IdGroupAt(s, i + 6) THEN i + 6 ELSE 0

\* r'(?:youtu\.be\/)([0-9A-Za-z_-]{11})'
VideoPattern3(s, i) ==
    IF HasAt(s, i, <<"y", "o", "u", "t", "u", ".", "b", "e", "/">>) /\ IdGroupAt(s, i + 9) THEN i + 9 ELSE 0

\* re.search: of the positions where a pattern matches, the leftmost; 0 when
\* there is none
Leftmost(hits) ==
    IF hits = {} THEN 0 ELSE CHOOSE i \in hits : \A j \in hits : i <= j

InvalidURL == [ok |-> FALSE, error |-> "Invalid YouTube URL"]

\* the for loop over patterns: the first pattern with a match decides
extract_video_id(s) ==
    LET m1 == Leftmost({i \in 1..Len(s) : VideoPattern1(s, i) # 0})
        m2 == Leftmost({i \in 1..Len(s) : VideoPattern2(s, i) # 0})
        m3 == Leftmost({i \in 1..Len(s) : VideoPattern3(s, i) # 0})
        g  == IF m1 # 0 THEN VideoPattern1(s, m1)
              ELSE IF m2 # 0 THEN VideoPattern2(s, m2)
              ELSE IF m3 # 0 THEN VideoPattern3(s, m3)
              ELSE 0
    IN  IF g = 0 THEN InvalidURL
        ELSE [ok |-> TRUE, id |-> SubSeq(s, g, g + IdLen - 1)]

(***************************************************************************)
(* YouTubeHelper._extract_playlist_id                                      *)
(***************************************************************************)
\* the end of the longest run of [0-9A-Za-z_-] starting at g (g - 1: none)
RECURSIVE IdRunEnd(_, _)
IdRunEnd(s, g) ==
    IF g <= Len(s) /\ s[g] \in IdChars THEN IdRunEnd(s, g + 1) ELSE g - 1

\* r'(?:list=)([0-9A-Za-z_-]+)'
PlaylistPattern1(s, i) ==
    IF HasAt(s, i, <<"l", "i", "s", "t", "=">>) /\ IdRunEnd(s, i + 5) >= i + 5 THEN i + 5 ELSE 0

\* r'(?:playlist\/)([0-9A-Za-z_-]+)'
PlaylistPattern2(s, i) ==
    IF HasAt(s, i, <<"p", "l", "a", "y", "l", "i", "s", "t", "/">>) /\ IdRunEnd(s, i + 9) >= i + 9 THEN i + 9 ELSE 0

InvalidPlaylistURL == [ok |-> FALSE, error |-> "Invalid playlist URL"]

\* the patterns tried in the other order
extract_playlist_id_PathFirst(s) ==
    LET m1 == Leftmost({i \in 1..Len(s) : PlaylistPattern1(s, i) # 0})
        m2 == Leftmost({i \in 1..Len(s) : PlaylistPattern2(s, i) # 0})
        g  == IF m2 # 0 THEN PlaylistPattern2(s, m2)
              ELSE IF m1 # 0 THEN PlaylistPattern1(s, m1)
              ELSE 0
    IN  IF g = 0 THEN InvalidPlaylistURL
        ELSE [ok |-> TRUE, id |-> SubSeq(s, g, IdRunEnd(s, g))]

extract_playlist_id(s) ==
    LET m1 == Leftmost({i \in 1..Len(s) : PlaylistPattern1(s, i) # 0})
        m2 == Leftmost({i \in 1..Len(s) : PlaylistPattern2(s, i) # 0})
        g  == IF m1 # 0 THEN PlaylistPattern1(s, m1)
              ELSE IF m2 # 0 THEN PlaylistPattern2(s, m2)
              ELSE 0
    IN  IF g = 0 THEN InvalidPlaylistURL
        ELSE [ok |-> TRUE, id |-> SubSeq(s, g, IdRunEnd(s, g))]

(***************************************************************************)
(* TranscriptProcessor: extract_transcript, format_transcript              *)
(***************************************************************************)
\* sep.join(parts)
RECURSIVE Join(_, _)
Join(parts, sep) ==
    IF parts = <<>> THEN <<>>
    ELSE IF Len(parts) = 1 THEN parts[1]
    ELSE parts[1] \o sep \o Join(Tail(parts), sep)

\* s.split(): the maximal runs of non-white-space characters, in order
RECURSIVE SplitFrom(_, _, _)
SplitFrom(s, i, word) ==
    IF i > Len(s) THEN (IF word = <<>> THEN <<>> ELSE <<word>>)
    ELSE IF s[i] \in Whitespace
         THEN (IF word = <<>> THEN <<>> ELSE <<word>>) \o SplitFrom(s, i + 1, <<>>)
         ELSE SplitFrom(s, i + 1, Append(word, s[i]))

Split(s) == SplitFrom(s, 1, <<>>)

\* " ".join(transcript.split())
format_transcript(transcript) == Join(Split(transcript), <<" ">>)

\* what YouTubeTranscriptApi.get_transcript gives for a video at one call:
\* the cue texts, or a failure (no captions, video unavailable)
Cues1 == <<<<"a", "m", "a", "z", "i", "n", "g", " ", "g", "r", "a", "c", "e">>>>
Cues2 == <<<<"i", "n", " ", "t", "h", "e", "\n", "b", "e", "g", "i", "n", "n", "i", "n", "g">>, <<" ", "w", "a", "s">>>>
TranscriptApiResults ==
    {[raises |-> TRUE, cues |-> <<>>],
     [raises |-> FALSE, cues |-> Cues1],
     [raises |-> FALSE, cues |-> Cues2]}

\* extract_transcript(video_id) with raw=False: the cue texts joined by one
\* space, "" when the source fails
extract_transcript(api) ==
    IF api.raises THEN <<>> ELSE Join(api.cues, <<" ">>)

(***************************************************************************)
(* The backing store (Supabase tables) as the spec describes it            *)
(***************************************************************************)
NoId == <<>>
NoneRow == [none |-> TRUE]

\* dict.get(key, default)
DictGet(d, key, default) == IF key \in DOMAIN d THEN d[key] ELSE default

\* the row with the columns named in data overwritten
Merge(row, data) ==
    [c \in DOMAIN row |-> IF c \in DOMAIN data THEN data[c] ELSE row[c]]

\* select ... eq(col, val): the matching rows, in table order
RECURSIVE SelectEq(_, _, _)
SelectEq(table, col, val) ==
    IF table = <<>> THEN <<>>
    ELSE (IF Head(table)[col] = val THEN <<Head(table)>> ELSE <<>>)
         \o SelectEq(Tail(table), col, val)

\* upsert: insert, or update on conflict with the table's unique key
TableUpsert(table, key, blank, data) ==
    IF \E k \in 1..Len(table) : table[k][key] = data[key]
    THEN [k \in 1..Len(table) |->
             IF table[k][key] = data[key] THEN Merge(table[k], data) ELSE table[k]]
    ELSE Append(table, Merge(blank, data))

\* update ... eq(col, val)
TableUpdate(table, col, val, data) ==
    [k \in 1..Len(table) |->
        IF table[k][col] = val THEN Merge(table[k], data) ELSE table[k]]

\* a transcripts row before its columns are given: the serial id, the time
\* of the insert (the n-th row is made at time n) and the defaults
BlankTranscript(table) ==
    [id |-> Len(table) + 1, video_id |-> NoId, title |-> "", transcript |-> <<>>,
     created_at |-> Len(table) + 1, ai_summary |-> None]

BlankCategories ==
    [transcript_id |-> 0, christian_life |-> <<>>, church_ministry |-> <<>>,
     theology |-> <<>>]

\* a stories row before its columns are given: the serial id
BlankStory(table) ==
    [id |-> Len(table) + 1, title |-> "", summary |-> "", message |-> ""]

EmptyDb == [transcripts |-> <<>>, categories |-> <<>>, stories |-> <<>>,
            transcript_stories |-> <<>>]

(***************************************************************************)
(* Database: the operations the ingestion uses                             *)
(***************************************************************************)
\* the record insert_transcript hands to upsert
TranscriptPayload_NoTitle(video_id, title, transcript) ==
    [video_id |-> video_id, title |-> "", transcript |-> transcript]

TranscriptPayload(video_id, title, transcript) ==
    [video_id |-> video_id, title |-> title, transcript |-> transcript]

\* store_ok = FALSE: the store raises; the except branch returns None
insert_transcript(d, video_id, title, transcript, store_ok) ==
    IF ~store_ok THEN [db |-> d, ret |-> NoId]
    ELSE [db  |-> [d EXCEPT !.transcripts =
                      TableUpsert(@, "video_id", BlankTranscript(@),
                                  TranscriptPayload(video_id, title, transcript))],
          ret |-> video_id]

get_transcript(d, video_id, store_ok) ==
    LET data == SelectEq(d.transcripts, "video_id", video_id)
    IN  IF store_ok /\ data # <<>> THEN data[1] ELSE NoneRow

\* select('id, title')
video_exists(d, video_id, store_ok) ==
    LET data == SelectEq(d.transcripts, "video_id", video_id)
    IN  IF store_ok /\ data # <<>>
        THEN [id |-> data[1].id, title |-> data[1].title]
        ELSE NoneRow

\* the row made of the given types only
CategoriesPayload_GivenOnly(transcript_id, categories) ==
    [c \in {"transcript_id"} \cup (DOMAIN categories \cap {"christian_life", "church_ministry", "theology"}) |->
        IF c = "transcript_id" THEN transcript_id ELSE categories[c]]

\* the row update_categories hands to upsert: a type not given is []
CategoriesPayload(transcript_id, categories) ==
    [transcript_id   |-> transcript_id,
     christian_life  |-> DictGet(categories, "christian_life", <<>>),
     church_ministry |-> DictGet(categories, "church_ministry", <<>>),
     theology        |-> DictGet(categories, "theology", <<>>)]

\* categories: the dict the caller passes; its top-level keys are read
update_categories(d, video_id, categories, get_ok, store_ok) ==
    LET transcript == get_transcript(d, video_id, get_ok)
    IN  IF transcript = NoneRow THEN [db |-> d, ret |-> FALSE]
        ELSE LET data == CategoriesPayload(transcript.id, categories)
             IN  IF ~store_ok THEN [db |-> d, ret |-> FALSE]
                 ELSE [db  |-> [d EXCEPT !.categories =
                                   TableUpsert(@, "transcript_id", BlankCategories, data)],
                       ret |-> TRUE]

update_transcript_summary(d, video_id, summary, store_ok) ==
    IF ~store_ok THEN [db |-> d, ret |-> FALSE]
    ELSE [db  |-> [d EXCEPT !.transcripts =
                      TableUpdate(@, "video_id", video_id, [ai_summary |-> summary])],
          ret |-> SelectEq(d.transcripts, "video_id", video_id) # <<>>]

(***************************************************************************)
(* Collaborators: video metadata, summarization, categorization            *)
(***************************************************************************)
VidA == <<"d", "Q", "w", "4", "w", "9", "W", "g", "X", "c", "Q">>
VidB == <<"-", "_", "0", "a", "Z", "9", "-", "_", "z", "A", "1">>

\* the title the metadata source holds for a video
VideoTitle(video_id) == IF video_id = VidA THEN "Sermon A" ELSE "Sermon B"

\* the title a playlist item carries
ItemTitle(video_id) == IF video_id = VidA THEN "A (playlist)" ELSE "B (playlist)"

\* get_video_info: api_ok = FALSE is a failed request or a video not found
get_video_info(video_id, api_ok) ==
    IF api_ok THEN [ok |-> TRUE, title |-> VideoTitle(video_id)]
    ELSE [ok |-> FALSE, error |-> "Error fetching video info"]

\* s.strip()
RECURSIVE LStrip(_)
LStrip(s) == IF s # <<>> /\ Head(s) \in Whitespace THEN LStrip(Tail(s)) ELSE s

RECURSIVE RStrip(_)
RStrip(s) ==
    IF s # <<>> /\ s[Len(s)] \in Whitespace THEN RStrip(SubSeq(s, 1, Len(s) - 1)) ELSE s

Strip(s) == RStrip(LStrip(s))

\* len(text.strip()) < 10
MinTextChars == 10

\* f"Error generating summary: {str(e)}"
SummaryError == "Error generating summary"

\* generate_summary: it never raises; a service failure becomes a text
generate_summary(text, service_ok) ==
    IF text = <<>> \/ Len(Strip(text)) < MinTextChars
    THEN "Text is too short to summarize."
    ELSE IF service_ok THEN "summary"
    ELSE SummaryError

\* the vocabularies, cut down to the names the model's responses use
CHRISTIAN_LIFE_CATEGORIES == {"Joy", "Fear"}
CHURCH_MINISTRY_CATEGORIES == {"Grace"}
THEOLOGY_CATEGORIES == {"Sin"}

\* the list passed on unchecked
Filter_Unchecked(list, allowed) == list

\* [cat for cat in list if cat in allowed]
RECURSIVE Filter(_, _)
Filter(list, allowed) ==
    IF list = <<>> THEN <<>>
    ELSE (IF Head(list) \in allowed THEN <<Head(list)>> ELSE <<>>)
         \o Filter(Tail(list), allowed)

NoCategories == [christian_life |-> <<>>, church_ministry |-> <<>>, theology |-> <<>>]

\* The service's answer is a sequence of tokens: prose, the braces, and the
\* members "key": value of an object. A value is a list of names, a string
\* (items: its characters), an object (items: its keys), null or a number.
Prose == [t |-> "prose", key |-> "", value |-> [kind |-> "null", items |-> <<>>]]
Open == [t |-> "{", key |-> "", value |-> [kind |-> "null", items |-> <<>>]]
Close == [t |-> "}", key |-> "", value |-> [kind |-> "null", items |-> <<>>]]
Member(key, kind, items) ==
    [t |-> "member", key |-> key, value |-> [kind |-> kind, items |-> items]]

\* response_text.find('{'): 0 for -1
FindOpen(response_text) ==
    Leftmost({k \in 1..Len(response_text) : response_text[k].t = "{"})

\* the while loop: the place after the brace that closes the one at
\* json_start, with the count of open braces left
RECURSIVE MatchBraces(_, _, _)
MatchBraces(response_text, count, json_end) ==
    IF count > 0 /\ json_end <= Len(response_text)
    THEN MatchBraces(response_text,
                     IF response_text[json_end].t = "{" THEN count + 1
                     ELSE IF response_text[json_end].t = "}" THEN count - 1
                     ELSE count,
                     json_end + 1)
    ELSE [count |-> count, json_end |-> json_end]

\* the value json.loads gives the last member with the key
LastValue(members, key) ==
    members[CHOOSE k \in 1..Len(members) :
               /\ members[k].key = key
               /\ \A j \in (k + 1)..Len(members) : members[j].key # key].value

\* json.loads(json_str): an object is the braces around members only
json_loads(json_str) ==
    IF /\ Len(json_str) >= 2
       /\ json_str[1].t = "{"
       /\ json_str[Len(json_str)].t = "}"
       /\ \A k \in 2..(Len(json_str) - 1) : json_str[k].t = "member"
    THEN LET members == SubSeq(json_str, 2, Len(json_str) - 1)
         IN  [ok |-> TRUE,
              keys |-> {members[k].key : k \in 1..Len(members)},
              members |-> members]
    ELSE [ok |-> FALSE, keys |-> {}, members |-> <<>>]

\* re.search(r'\{[\s\S]*?\}(?=\s*$)', response_text): from the first brace
\* to the brace the text ends with
FallbackMatch(response_text) ==
    LET from == FindOpen(response_text)
    IN  IF from # 0 /\ from < Len(response_text) /\ response_text[Len(response_text)].t = "}"
        THEN SubSeq(response_text, from, Len(response_text))
        ELSE <<>>

EmptyObject == [ok |-> TRUE, keys |-> {}, members |-> <<>>]

\* the inner try/except: the parsed object, or the empty categories when
\* neither way of reading the answer gives JSON
ParseResponse(response_text) ==
    LET json_start == FindOpen(response_text)
        m == MatchBraces(response_text, 1, json_start + 1)
        first == IF json_start # 0 /\ m.count = 0
                 THEN json_loads(SubSeq(response_text, json_start, m.json_end - 1))
                 ELSE [ok |-> FALSE, keys |-> {}, members |-> <<>>]
        json_match == FallbackMatch(response_text)
        second == IF json_match # <<>> THEN json_loads(json_match)
                  ELSE [ok |-> FALSE, keys |-> {}, members |-> <<>>]
    IN  IF first.ok THEN [categories |-> first, errors |-> <<>>]
        ELSE IF second.ok THEN [categories |-> second, errors |-> <<>>]
        ELSE [categories |-> EmptyObject,
              errors |-> IF json_match # <<>> THEN <<"Failed to parse JSON">>
                         ELSE <<"No valid JSON structure found in response">>]

\* categories.get(key, []): what the comprehension iterates over
Got(categories, key) ==
    IF key \in categories.keys THEN LastValue(categories.members, key)
    ELSE [kind |-> "list", items |-> <<>>]

\* `for cat in value` raises TypeError for null and for a number
Iterable(value) == value.kind \in {"list", "string", "object"}

\* what the categorization service answers
CategoryResponses ==
    {[raises |-> FALSE,
      response_text |-> <<Open, Member("christian_life", "list", <<"Joy", "Hope">>),
                          Member("theology", "list", <<"Sin">>), Close>>]}

\* the returned value when text is too short or anything raises
FailedCategories(error) == [categories |-> NoCategories, debug |-> [errors |-> <<error>>]]

\* categorize_transcript: {'categories': validated, 'debug': ...}
categorize_transcript(text, response) ==
    IF text = <<>> \/ Len(Strip(text)) < MinTextChars
    THEN FailedCategories("Text too short to process")
    ELSE IF response.raises THEN FailedCategories("service")
    ELSE LET parsed == ParseResponse(response.response_text)
             christian_life == Got(parsed.categories, "christian_life")
             church_ministry == Got(parsed.categories, "church_ministry")
             theology == Got(parsed.categories, "theology")
         IN  IF ~(Iterable(christian_life) /\ Iterable(church_ministry) /\ Iterable(theology))
             THEN FailedCategories("TypeError")
             ELSE [categories |->
                     [christian_life  |-> Filter(christian_life.items, CHRISTIAN_LIFE_CATEGORIES),
                      church_ministry |-> Filter(church_ministry.items, CHURCH_MINISTRY_CATEGORIES),
                      theology        |-> Filter(theology.items, THEOLOGY_CATEGORIES)],
                   debug |-> [errors |-> parsed.errors]]

(***************************************************************************)
(* main.py: process_single_video                                           *)
(***************************************************************************)
\* the store calls that can fail during one script step
StoreCalls == {"video_exists", "insert_transcript", "get_transcript",
               "update_categories", "update_transcript_summary"}

\* the store failures tried during one process_single_video call: none, or
\* the call that decides where it goes
FaultSets == {{}, {"insert_transcript"}}

\* what the collaborators do during one process_single_video call; a
\* collaborator the call never reaches is given its failure-free answer
Worlds ==
    {w \in [api        : TranscriptApiResults,
            info_ok    : BOOLEAN,
            summary_ok : BOOLEAN,
            cat        : CategoryResponses,
            faults     : FaultSets] :
        (w.api.raises \/ ~w.info_ok) =>
            (w.summary_ok /\ ~w.cat.raises /\ w.faults = {}
             /\ (w.api.raises => w.info_ok))}

\* `if not transcript:`
NoTranscript_Never(transcript) == FALSE

NoTranscript(transcript) == transcript = <<>>

\* control: "stop" (st.stop()), "rerun" (st.rerun()), "return"; both Streamlit
\* calls raise a BaseException, which no `except Exception` of the script catches
process_single_video(d, video_id, title, no_redirect, w) ==
    LET transcript == extract_transcript(w.api)
        Stop(outcome) ==
            [db |-> d, outcome |-> outcome, control |-> "stop", video_id |-> video_id,
             fetched |-> transcript, title |-> "", text |-> <<>>,
             categorized |-> NoCategories, summary_ok |-> TRUE]
    IN  IF NoTranscript(transcript) THEN Stop("no_transcript")
        ELSE
        LET info == IF title = "" THEN get_video_info(video_id, w.info_ok)
                    ELSE [ok |-> TRUE, title |-> title]
        IN  IF ~info.ok THEN Stop("error")
            ELSE
            LET summary    == generate_summary(transcript, w.summary_ok)
                categories == categorize_transcript(transcript, w.cat)
                ins == insert_transcript(d, video_id, info.title, transcript,
                                         "insert_transcript" \notin w.faults)
            IN  IF ins.ret = NoId THEN Stop("store_failed")
                ELSE
                LET c == update_categories(ins.db, video_id, categories,
                                           "get_transcript" \notin w.faults,
                                           "update_categories" \notin w.faults)
                    s == update_transcript_summary(c.db, video_id, summary,
                                           "update_transcript_summary" \notin w.faults)
                IN  [db |-> s.db, outcome |-> "stored",
                     control |-> IF no_redirect THEN "return" ELSE "rerun",
                     video_id |-> video_id, fetched |-> transcript,
                     title |-> info.title, text |-> transcript,
                     categorized |-> categories.categories,
                     summary_ok |-> w.summary_ok]

NoFlow == [outcome |-> "none", video_id |-> NoId, fetched |-> <<>>,
           categorized |-> NoCategories, summary_ok |-> TRUE]

\* history: what the last call was given and how it ended
FlowOf(r) == [outcome |-> r.outcome, video_id |-> r.video_id, fetched |-> r.fetched,
              categorized |-> r.categorized, summary_ok |-> r.summary_ok]

NoWrite == [n |-> 0, title |-> "", transcript |-> <<>>]

\* history: the title and text passed to a successful insert_transcript; n
\* counts the successful calls for the video, up to 2
Written(r) ==
    IF r.outcome = "stored"
    THEN [writes EXCEPT ![r.video_id] =
             [n |-> IF @.n < 2 THEN @.n + 1 ELSE 2, title |-> r.title,
              transcript |-> r.text]]
    ELSE writes

(***************************************************************************)
(* The playlist enumeration source and YouTubeHelper.get_playlist_videos   *)
(***************************************************************************)
\* a page token is the number of the page it asks for; 0 is no token
NoToken == 0

Item(video_id) == [video_id |-> video_id, title |-> ItemTitle(video_id)]

PLab == <<"P", "L", "a", "b">>
PLb == <<"P", "L", "b">>
PLe == <<"P", "L", "e">>

\* the pages the source holds for a playlist, each with its items and the
\* nextPageToken of its response
PlaylistPages(playlist_id) ==
    IF playlist_id = PLab
    THEN <<[items |-> <<Item(VidA), Item(VidB)>>, nextPageToken |-> 2],
           [items |-> <<>>, nextPageToken |-> 3],
           [items |-> <<Item(VidA)>>, nextPageToken |-> NoToken]>>
    ELSE IF playlist_id = PLb
    THEN <<[items |-> <<Item(VidB)>>, nextPageToken |-> NoToken]>>
    ELSE <<[items |-> <<>>, nextPageToken |-> NoToken]>>

\* playlistItems().list(pageToken=...).execute()
PlaylistItemsList(playlist_id, pageToken) ==
    PlaylistPages(playlist_id)[IF pageToken = NoToken THEN 1 ELSE pageToken]

\* `if not next_page_token: break`
LastPage_IfEmpty(response) == response.items = <<>> \/ response.nextPageToken = NoToken

LastPage(response) == response.nextPageToken = NoToken

NoPlaylist ==
    [id |-> <<>>, videos |-> <<>>, next_page_token |-> NoToken, requests |-> <<>>,
     new_videos |-> <<>>, i |-> 0, processed_count |-> 0, errors |-> <<>>,
     batch_size |-> 0, skipped |-> 0, events |-> <<>>, summary_shown |-> FALSE]

(***************************************************************************)
(* main.py: the add_videos page                                            *)
(***************************************************************************)
SingleUrls == {<<"h", "t", "t", "p", "s", ":", "/", "/", "y", "o", "u", "t", "u", ".", "b", "e", "/">> \o VidA,
               <<"h", "t", "t", "p", "s", ":", "/", "/", "w", "w", "w", ".", "y", "o", "u", "t", "u", "b", "e", ".", "c", "o", "m", "/", "w", "a", "t", "c", "h", "?", "v", "=">> \o VidB,
               <<"h", "t", "t", "p", "s", ":", "/", "/", "e", "x", "a", "m", "p", "l", "e", ".", "c", "o", "m", "/", "w", "a", "t", "c", "h">>}

PlaylistUrls == {<<"h", "t", "t", "p", "s", ":", "/", "/", "w", "w", "w", ".", "y", "o", "u", "t", "u", "b", "e", ".", "c", "o", "m", "/", "p", "l", "a", "y", "l", "i", "s", "t", "?", "l", "i", "s", "t", "=">> \o PLab,
                 <<"h", "t", "t", "p", "s", ":", "/", "/", "w", "w", "w", ".", "y", "o", "u", "t", "u", "b", "e", ".", "c", "o", "m", "/", "p", "l", "a", "y", "l", "i", "s", "t", "?", "l", "i", "s", "t", "=">> \o PLb,
                 <<"h", "t", "t", "p", "s", ":", "/", "/", "w", "w", "w", ".", "y", "o", "u", "t", "u", "b", "e", ".", "c", "o", "m", "/", "p", "l", "a", "y", "l", "i", "s", "t", "/">> \o PLe,
                 <<"h", "t", "t", "p", "s", ":", "/", "/", "w", "w", "w", ".", "y", "o", "u", "t", "u", "b", "e", ".", "c", "o", "m", "/", "f", "e", "e", "d">>}

\* the number of "Process" clicks followed
MaxRuns == 2

\* st.slider("Batch Size", min_value=1, max_value=10, value=5)
BatchSizeDefault == 5
BatchSizes == {1, BatchSizeDefault}

Videos == {VidA, VidB}

\* one run of the page with input type "Single Video". clk is the widget whose
\* click started the run: st.button and st.form_submit_button return True
\* only in the run their own click started. exists_ok = FALSE: the store
\* raises inside video_exists
SingleVideoPage(clk, action, u, exists_ok, w) ==
    LET Shown == [db |-> db, cmd |-> current_command, show |-> show_transcript_id,
                  form |-> NoId, flow |-> NoFlow, end |-> "completed",
                  writes |-> writes]
        Flow(r) == [Shown EXCEPT
                       !.db = r.db, !.flow = FlowOf(r), !.writes = Written(r),
                       !.end = IF r.control = "stop" THEN "stopped" ELSE r.control,
                       !.cmd = IF r.control = "rerun" THEN "view_video" ELSE @,
                       !.show = IF r.control = "rerun" THEN r.video_id ELSE @]
    IN  IF clk # "process_videos_btn" THEN Shown
        ELSE
        LET id == extract_video_id(u)
        IN  IF ~id.ok THEN [Shown EXCEPT !.end = "error"]
            ELSE
            LET existing_video == video_exists(db, id.id, exists_ok)
                submitted == clk = "Confirm Action"
            IN  IF existing_video # NoneRow
                THEN IF ~submitted THEN [Shown EXCEPT !.form = id.id]
                     ELSE IF action = "View Existing"
                     THEN [Shown EXCEPT !.show = id.id, !.cmd = "view_video", !.end = "rerun"]
                     ELSE Flow(process_single_video(db, id.id, existing_video.title, FALSE, w))
                ELSE Flow(process_single_video(db, id.id, "", FALSE, w))

\* the sidebar buttons: current_command is set and the page of the command shown
ClickSidebar ==
    /\ pc = "idle"
    /\ \E cmd \in {"add_videos", "list"} : current_command' = cmd
    /\ clicked' = [widget |-> "sidebar", action |-> "none"]
    /\ form_video' = NoId
    /\ flow' = NoFlow
    /\ run_end' = "completed"
    /\ playlist' = NoPlaylist
    /\ UNCHANGED <<db, show_transcript_id, pc, runs, writes, urlVars, otherVars>>

Apply(page) ==
    /\ db' = page.db
    /\ current_command' = page.cmd
    /\ show_transcript_id' = page.show
    /\ form_video' = page.form
    /\ flow' = page.flow
    /\ run_end' = page.end
    /\ writes' = page.writes

\* "Process" clicked with input type "Single Video" and a URL typed in
ProcessSingleVideo ==
    /\ pc = "idle"
    /\ current_command = "add_videos"
    /\ runs < MaxRuns
    /\ runs' = runs + 1
    /\ \E u \in SingleUrls, exists_ok \in BOOLEAN, w \in Worlds :
          Apply(SingleVideoPage("process_videos_btn", "none", u, exists_ok, w))
    /\ clicked' = [widget |-> "process_videos_btn", action |-> "none"]
    /\ playlist' = NoPlaylist
    /\ UNCHANGED <<pc, urlVars, otherVars>>

\* "Confirm Action" clicked in the form the last run showed
ConfirmAction ==
    /\ pc = "idle"
    /\ current_command = "add_videos"
    /\ form_video # NoId
    /\ \E action \in {"View Existing", "Re-process"}, u \in SingleUrls,
          exists_ok \in BOOLEAN, w \in Worlds :
          /\ extract_video_id(u) = [ok |-> TRUE, id |-> form_video]
          /\ Apply(SingleVideoPage("Confirm Action", action, u, exists_ok, w))
          /\ clicked' = [widget |-> "Confirm Action", action |-> action]
    /\ playlist' = NoPlaylist
    /\ UNCHANGED <<pc, runs, urlVars, otherVars>>

\* "Process" clicked with input type "Playlist": get_playlist_videos begins
ProcessPlaylist ==
    /\ pc = "idle"
    /\ current_command = "add_videos"
    /\ runs < MaxRuns
    /\ runs' = runs + 1
    /\ \E u \in PlaylistUrls, batch_size \in BatchSizes :
          LET id == extract_playlist_id(u)
          IN  IF id.ok
              THEN /\ pc' = "paging"
                   /\ playlist' = [NoPlaylist EXCEPT !.id = id.id, !.batch_size = batch_size]
                   /\ run_end' = "running"
              ELSE /\ pc' = "idle"
                   /\ playlist' = NoPlaylist
                   /\ run_end' = "error"
    /\ clicked' = [widget |-> "process_videos_btn", action |-> "none"]
    /\ form_video' = NoId
    /\ flow' = NoFlow
    /\ UNCHANGED <<db, current_command, show_transcript_id, writes, urlVars, otherVars>>

\* get_playlist_videos, one iteration of `while True`
FetchPage ==
    /\ pc = "paging"
    /\ \E api_ok \in BOOLEAN :
          IF ~api_ok
          THEN /\ pc' = "idle"
               /\ run_end' = "error"
               /\ UNCHANGED playlist
          ELSE LET response == PlaylistItemsList(playlist.id, playlist.next_page_token)
               IN  /\ playlist' = [playlist EXCEPT
                         !.requests = Append(@, playlist.next_page_token),
                         !.videos = @ \o response.items,
                         !.next_page_token = response.nextPageToken]
                   /\ pc' = IF LastPage(response) THEN "partition" ELSE "paging"
                   /\ UNCHANGED run_end
    /\ UNCHANGED <<db, current_command, show_transcript_id, form_video, clicked, flow,
                   runs, writes, urlVars, otherVars>>

\* the videos at the positions of keep, in order
RECURSIVE Pick(_, _, _)
Pick(list, keep, k) ==
    IF k > Len(list) THEN <<>>
    ELSE (IF k \in keep THEN <<list[k]>> ELSE <<>>) \o Pick(list, keep, k + 1)

\* the split into existing and new videos; st.button("Re-process existing
\* videos") is False in the run "Process" started
PartitionVideos ==
    /\ pc = "partition"
    /\ \E failed \in SUBSET (1..Len(playlist.videos)) :
          LET new == {k \in 1..Len(playlist.videos) :
                         video_exists(db, playlist.videos[k].video_id, k \notin failed)
                             = NoneRow}
              new_videos == Pick(playlist.videos, new, 1)
          IN  /\ playlist' = [playlist EXCEPT !.new_videos = new_videos]
              /\ pc' = IF new_videos # <<>> THEN "loop" ELSE "idle"
              /\ run_end' = IF new_videos # <<>> THEN run_end ELSE "completed"
    /\ UNCHANGED <<db, current_command, show_transcript_id, form_video, clicked, flow,
                   runs, writes, urlVars, otherVars>>

\* one iteration of `for i, video in enumerate(new_videos)`
ProcessNextVideo ==
    /\ pc = "loop"
    /\ \E w \in Worlds :
          LET video == playlist.new_videos[playlist.i + 1]
              r == process_single_video(db, video.video_id, video.title, TRUE, w)
              last == playlist.i + 1 = Len(playlist.new_videos)
              attempted == [playlist EXCEPT
                              !.events = Append(@, "video"),
                              !.skipped = IF r.outcome = "no_transcript" THEN @ + 1 ELSE @]
          IN  /\ db' = r.db
              /\ flow' = FlowOf(r)
              /\ writes' = Written(r)
              /\ IF r.control = "stop"
                 THEN /\ playlist' = attempted
                      /\ pc' = "idle"
                      /\ run_end' = "stopped"
                 ELSE /\ playlist' =
                            IF r.control = "return"
                            THEN [attempted EXCEPT !.processed_count = @ + 1, !.i = @ + 1]
                            ELSE [attempted EXCEPT
                                     !.errors = Append(@, video.title), !.i = @ + 1]
                      /\ pc' = IF last THEN "summary" ELSE "loop"
                      /\ UNCHANGED run_end
    /\ UNCHANGED <<current_command, show_transcript_id, form_video, clicked, runs,
                   urlVars, otherVars>>

\* "Show summary": the counts and the errors
ShowSummary ==
    /\ pc = "summary"
    /\ playlist' = [playlist EXCEPT !.summary_shown = TRUE]
    /\ pc' = "idle"
    /\ run_end' = "completed"
    /\ UNCHANGED <<db, current_command, show_transcript_id, form_video, clicked, flow,
                   runs, writes, urlVars, otherVars>>

\* the parts of the state a specification does not run stay as they are here
NotExtracted == [ok |-> FALSE, error |-> "not run"]

NoResult == [fn |-> "none"]

\* main.py constructs Database() before any page runs
DatabaseReady == [state |-> "ready", attempts |-> 1, error |-> "none"]

NoDbCall == [op |-> "none"]

NotAssigned == [n |-> 0, categories |-> NoCategories]

NoAiCall == [called |-> FALSE]

IdIdle == extracted_playlist = NotExtracted

\* _last_transcript = []
CueIdle ==
    /\ last_transcript = <<>>
    /\ cue_history = <<>>

TextIdle ==
    /\ input_text = <<>>
    /\ result = NoResult

StoreReady ==
    /\ database = DatabaseReady
    /\ outage = 0
    /\ db_call = NoDbCall
    /\ assigned = [v \in Videos |-> NotAssigned]

AiIdle == ai_call = NoAiCall

AppInit ==
    /\ db = EmptyDb
    /\ current_command = None
    /\ show_transcript_id = NoId
    /\ form_video = NoId
    /\ pc = "idle"
    /\ clicked = [widget |-> "none", action |-> "none"]
    /\ flow = NoFlow
    /\ run_end = "completed"
    /\ runs = 0
    /\ playlist = NoPlaylist
    /\ writes = [v \in Videos |-> NoWrite]

UrlIdle ==
    /\ url = <<>>
    /\ url_id = <<>>
    /\ extracted = [ok |-> FALSE, error |-> "not run"]

Init == AppInit /\ UrlIdle /\ IdIdle /\ CueIdle /\ TextIdle /\ StoreReady /\ AiIdle

Next ==
    \/ ClickSidebar
    \/ ProcessSingleVideo
    \/ ConfirmAction
    \/ ProcessPlaylist
    \/ FetchPage
    \/ PartitionVideos
    \/ ProcessNextVideo
    \/ ShowSummary

Spec == Init /\ [][Next]_vars

(***************************************************************************)
(* SpecUrl: extract_video_id over URLs of the supported shapes             *)
(***************************************************************************)
Schemes == {<<>>, <<"h", "t", "t", "p", "s", ":", "/", "/">>, <<"h", "t", "t", "p", ":", "/", "/">>}

Hosts == {<<"w", "w", "w", ".", "y", "o", "u", "t", "u", "b", "e", ".", "c", "o", "m">>,
          <<"y", "o", "u", "t", "u", "b", "e", ".", "c", "o", "m">>,
          <<"m", ".", "y", "o", "u", "t", "u", "b", "e", ".", "c", "o", "m">>,
          <<"y", "o", "u", "t", "u", ".", "b", "e">>,
          <<"w", "w", "w", ".", "y", "o", "u", "t", "u", "b", "e", "-", "n", "o", "c", "o", "o", "k", "i", "e", ".", "c", "o", "m">>}

\* what stands between the host and the <ID>
Shapes == {<<"/", "w", "a", "t", "c", "h", "?", "v", "=">>,
           <<"/", "e", "m", "b", "e", "d", "/">>,
           <<"/">>,
           <<"/", "v", "/">>,
           <<"/", "s", "h", "o", "r", "t", "s", "/">>}

SampleIds == {<<"d", "Q", "w", "4", "w", "9", "W", "g", "X", "c", "Q">>,
              <<"-", "_", "0", "a", "Z", "9", "-", "_", "z", "A", "1">>,
              <<"a", "b", "c", "d", "e", "f", "g", "h", "i", "j", "k">>}

\* trailing query parameters and fragments, some holding a later match
Trailers == {<<>>,
             <<"&", "t", "=", "5", "s">>,
             <<"?", "s", "i", "=", "A", "b", "C", "d", "E", "f", "G", "h", "I", "j", "K", "l", "M", "n", "O", "p">>,
             <<"#", "t", "=", "1", "m">>,
             <<"&", "v", "=", "z", "z", "z", "z", "z", "z", "z", "z", "z", "z", "z", "&", "l", "i", "s", "t", "=", "P", "L", "x">>,
             <<"?", "u", "=", "/", "Z", "Z", "Z", "Z", "Z", "Z", "Z", "Z", "Z", "Z", "Z", "Z">>}

NotRun == [ok |-> FALSE, error |-> "not run"]

InitUrl ==
    /\ \E sc \in Schemes, h \in Hosts, sh \in Shapes, id \in SampleIds, tr \in Trailers :
          /\ url = sc \o h \o sh \o id \o tr
          /\ url_id = id
    /\ extracted = NotRun
    /\ AppInit
    /\ IdIdle /\ CueIdle /\ TextIdle /\ StoreReady /\ AiIdle

ExtractVideoId ==
    /\ extracted = NotRun
    /\ extracted' = extract_video_id(url)
    /\ UNCHANGED <<url, url_id, appVars, otherVars>>

NextUrl == ExtractVideoId

SpecUrl == InitUrl /\ [][NextUrl]_vars

\* C10: for every URL of a supported shape on a standard YouTube host, with
\* an 11-character <ID> followed by trailing query parameters or a fragment,
\* extract_video_id returns exactly <ID>.
C10_ExtractsExactId ==
    extracted # NotRun => (extracted.ok /\ extracted.id = url_id)

\* the spec's example, https://www.youtube.com/watch?v=dQw4w9WgXcQ&t=5s
C10_Witness ==
    /\ url = <<"h", "t", "t", "p", "s", ":", "/", "/", "w", "w", "w", ".", "y", "o", "u", "t", "u", "b", "e", ".", "c", "o", "m", "/", "w", "a", "t", "c", "h", "?", "v", "=", "d", "Q", "w", "4", "w", "9", "W", "g", "X", "c", "Q", "&", "t", "=", "5", "s">>
    /\ extracted = [ok |-> TRUE, id |-> <<"d", "Q", "w", "4", "w", "9", "W", "g", "X", "c", "Q">>]

(***************************************************************************)
(* Properties of the ingestion (Spec)                                      *)
(***************************************************************************)
RowsOf(video_id) == SelectEq(db.transcripts, "video_id", video_id)

\* a playlist run has begun its loop over new_videos
InPlaylistRun == playlist.new_videos # <<>>

\* the script run has ended
RunOver == pc = "idle"

\* C1: after any sequence of insert_transcript calls the store holds at most
\* one transcripts row per video_id, and that row's title and transcript are
\* those of the most recent successful call for the video_id.
C1_OneRowLastWriteWins ==
    \A v \in Videos :
        /\ Len(RowsOf(v)) <= 1
        /\ writes[v].n = 0 => RowsOf(v) = <<>>
        /\ writes[v].n > 0 =>
              /\ Len(RowsOf(v)) = 1
              /\ RowsOf(v)[1].title = writes[v].title
              /\ RowsOf(v)[1].transcript = writes[v].transcript

\* a video ingested twice, the second time with another text
C1_Witness ==
    /\ writes[VidA].n = 2
    /\ flow.outcome = "stored"
    /\ flow.video_id = VidA
    /\ RowsOf(VidA)[1].transcript = Join(Cues2, <<" ">>)

\* C2: during playlist processing a failure while processing one video is
\* recorded in the error list and every later video of the playlist is still
\* attempted: the run does not end before all videos were attempted.
C2_FailureRecordedBatchGoesOn ==
    InPlaylistRun =>
        /\ flow.outcome \in {"no_transcript", "error", "store_failed"}
              => playlist.errors # <<>>
        /\ RunOver => Len(playlist.events) = Len(playlist.new_videos)

\* C3: each attempted video increments exactly one of processed, skipped and
\* errors, so processed + skipped + errors is the number of videos attempted,
\* and at completion it is the total (remaining = 0). skipped is counted here
\* as the videos found without a transcript.
C3_CountersAccountForEveryVideo ==
    InPlaylistRun =>
        LET counted == playlist.processed_count + playlist.skipped + Len(playlist.errors)
        IN  /\ counted = Len(playlist.events)
            /\ RunOver => counted = Len(playlist.new_videos)

\* C4: a playlist run that started processing videos ends with the summary
\* shown; no run ends with videos attempted or stored and no summary.
C4_RunEndsWithSummary ==
    (InPlaylistRun /\ RunOver) => playlist.summary_shown

\* C5: when the transcript source gives an empty transcript or fails, the
\* single-video flow ends in the no-transcript failure and leaves every table
\* of the store as it was.
C5_NoTranscriptNoWrite ==
    [][(flow'.outcome # "none" /\ flow'.fetched = <<>>)
          => (flow'.outcome = "no_transcript" /\ db' = db)]_vars

\* the no-transcript failure for a video the store already holds
C5_Witness ==
    /\ flow.outcome = "no_transcript"
    /\ RowsOf(flow.video_id) # <<>>
    /\ db.categories # <<>>

\* C6: the text the single-video flow stores is format_transcript of the
\* fetched text.
C6_StoredTextIsFormatted ==
    flow.outcome = "stored"
        => RowsOf(flow.video_id)[1].transcript = format_transcript(flow.fetched)

\* C7: after the user confirms Re-process for a video already stored, the
\* fetch and store steps run again; after View Existing the application shows
\* that video.
C7_ConfirmedActionTakesEffect ==
    clicked.widget = "Confirm Action" =>
        /\ clicked.action = "Re-process" => flow.outcome # "none"
        /\ clicked.action = "View Existing" =>
              (current_command = "view_video" /\ show_transcript_id # NoId)

RECURSIVE Flatten(_)
Flatten(pages) ==
    IF pages = <<>> THEN <<>> ELSE Head(pages).items \o Flatten(Tail(pages))

\* C8: get_playlist_videos returns the items of every page in page order and
\* item order, asks for each page once, following nextPageToken, and stops at
\* the first page whose response has no token.
C8_AllPagesInOrderOnce ==
    LET pages == PlaylistPages(playlist.id)
        asked == playlist.requests
    IN  /\ pc = "paging" =>
              /\ \A k \in 1..Len(asked) : asked[k] = IF k = 1 THEN NoToken ELSE k
              /\ \A k \in 1..Len(asked) : pages[k].nextPageToken # NoToken
              /\ playlist.videos = Flatten(SubSeq(pages, 1, Len(asked)))
        /\ pc = "partition" =>
              /\ Len(asked) = Len(pages)
              /\ \A k \in 1..Len(asked) : asked[k] = IF k = 1 THEN NoToken ELSE k
              /\ pages[Len(asked)].nextPageToken = NoToken
              /\ playlist.videos = Flatten(pages)

\* three pages followed, the middle one empty
C8_Witness ==
    /\ pc = "partition"
    /\ playlist.requests = <<NoToken, 2, 3>>
    /\ Len(playlist.videos) = 3

\* the number of "video" events among the first n events
RECURSIVE VideosIn(_, _)
VideosIn(events, n) ==
    IF n = 0 THEN 0
    ELSE VideosIn(events, n - 1) + (IF events[n] = "video" THEN 1 ELSE 0)

\* C9: between the last video of one batch of batch_size videos and the
\* first video of the next batch a pause step occurs.
C9_PauseBetweenBatches ==
    InPlaylistRun =>
        \A j \in 2..Len(playlist.events) :
            (/\ playlist.events[j] = "video"
             /\ VideosIn(playlist.events, j - 1) % playlist.batch_size = 0)
                => playlist.events[j - 1] = "pause"

(***************************************************************************)
(* SpecIds: extract_video_id and _extract_playlist_id over any URL         *)
(***************************************************************************)
UrlHeads == {<<>>,
             <<"h", "t", "t", "p", "s", ":", "/", "/", "w", "w", "w", ".", "y", "o", "u", "t", "u", "b", "e", ".", "c", "o", "m">>,
             <<"h", "t", "t", "p", "s", ":", "/", "/", "y", "o", "u", "t", "u", ".", "b", "e">>,
             <<"h", "t", "t", "p", "s", ":", "/", "/", "e", "x", "a", "m", "p", "l", "e", ".", "c", "o", "m">>}

\* what follows the host: paths, parameters, identifiers whole, cut short or
\* holding a character outside [0-9A-Za-z_-], and fragments
UrlParts == {<<>>,
             <<"/", "w", "a", "t", "c", "h", "?", "v", "=">>,
             <<"/", "e", "m", "b", "e", "d", "/">>,
             <<"/">>,
             <<"d", "Q", "w", "4", "w", "9", "W", "g", "X", "c", "Q">>,
             <<"d", "Q", "w", "4", "w", "9", "W", "g", "X", "c">>,
             <<"d", "Q", "w", "4", "w", ".", "9", "W", "g", "X", "c", "Q">>,
             <<"/", "p", "l", "a", "y", "l", "i", "s", "t", "/", "P", "L", "e">>,
             <<"/", "p", "l", "a", "y", "l", "i", "s", "t", "?", "l", "i", "s", "t", "=">>,
             <<"?", "l", "i", "s", "t", "=", "P", "L", "a", "b">>,
             <<"&", "l", "i", "s", "t", "=">>,
             <<"#", "t", "=", "1", "m">>}

InitIds ==
    /\ \E h \in UrlHeads, p1 \in UrlParts, p2 \in UrlParts, p3 \in UrlParts :
          url = h \o p1 \o p2 \o p3
    /\ url_id = <<>>
    /\ extracted = NotRun
    /\ AppInit
    /\ IdIdle /\ CueIdle /\ TextIdle /\ StoreReady /\ AiIdle

ExtractPlaylistId ==
    /\ extracted_playlist = NotExtracted
    /\ extracted_playlist' = extract_playlist_id(url)
    /\ UNCHANGED <<urlVars, appVars, textVars, storeVars, aiVars, cueVars>>

NextIds ==
    \/ ExtractVideoId
    \/ ExtractPlaylistId

SpecIds == InitIds /\ [][NextIds]_vars

\* some pattern of extract_video_id matches somewhere in s
VideoPatternMatches(s) ==
    \E i \in 1..Len(s) :
        \/ HasAt(s, i, <<"v", "=">>) /\ IdGroupAt(s, i + 2)
        \/ HasAt(s, i, <<"/">>) /\ IdGroupAt(s, i + 1)
        \/ HasAt(s, i, <<"e", "m", "b", "e", "d", "/">>) /\ IdGroupAt(s, i + 6)
        \/ HasAt(s, i, <<"y", "o", "u", "t", "u", ".", "b", "e", "/">>) /\ IdGroupAt(s, i + 9)

\* some pattern of _extract_playlist_id matches somewhere in s
PlaylistPatternMatches(s) ==
    \E i \in 1..Len(s) :
        \/ HasAt(s, i, <<"l", "i", "s", "t", "=">>) /\ i + 5 <= Len(s) /\ s[i + 5] \in IdChars
        \/ HasAt(s, i, <<"p", "l", "a", "y", "l", "i", "s", "t", "/">>) /\ i + 9 <= Len(s) /\ s[i + 9] \in IdChars

\* the positions where the query parameter list= starts
ListParams(s) ==
    {i \in 2..Len(s) : s[i - 1] \in {"?", "&"} /\ HasAt(s, i, <<"l", "i", "s", "t", "=">>)}

\* the value of the parameter at i: up to the next "&" or "#" or the end
ParamValue(s, i) ==
    LET from == i + 5
        stops == {k \in from..Len(s) : s[k] \in {"&", "#"}}
        to == IF stops = {} THEN Len(s) ELSE Leftmost(stops) - 1
    IN  SubSeq(s, from, to)

HasPlaylistSegment(s) == \E i \in 1..Len(s) : HasAt(s, i, <<"/", "p", "l", "a", "y", "l", "i", "s", "t", "/">>)

IsId(v) == v # <<>> /\ \A k \in 1..Len(v) : v[k] \in IdChars

\* C11: each extractor fails with its invalid-URL error exactly when none of
\* its patterns matches the URL; what extract_video_id returns is exactly 11
\* characters of [0-9A-Za-z_-]; and a playlist URL with both a list=
\* parameter holding an id and a playlist/ path segment yields the list= value.
C11_FailsIffNoPattern ==
    /\ extracted # NotRun =>
          /\ (extracted = InvalidURL) <=> ~VideoPatternMatches(url)
          /\ extracted.ok =>
                /\ Len(extracted.id) = 11
                /\ \A k \in 1..Len(extracted.id) : extracted.id[k] \in IdChars
    /\ extracted_playlist # NotExtracted =>
          /\ (extracted_playlist = InvalidPlaylistURL) <=> ~PlaylistPatternMatches(url)
          /\ (/\ ListParams(url) # {}
              /\ IsId(ParamValue(url, Leftmost(ListParams(url))))
              /\ HasPlaylistSegment(url))
                => /\ extracted_playlist.ok
                   /\ extracted_playlist.id = ParamValue(url, Leftmost(ListParams(url)))

\* https://www.youtube.com/playlist/PLe?list=PLab: no video pattern matches,
\* both playlist patterns do
C11_Witness ==
    /\ url = <<"h", "t", "t", "p", "s", ":", "/", "/", "w", "w", "w", ".", "y", "o", "u", "t", "u", "b", "e", ".", "c", "o", "m", "/", "p", "l", "a", "y", "l", "i", "s", "t", "/", "P", "L", "e", "?", "l", "i", "s", "t", "=", "P", "L", "a", "b">>
    /\ extracted = InvalidURL
    /\ extracted_playlist = [ok |-> TRUE, id |-> PLab]

(***************************************************************************)
(* CommandParser: the analytics engine. word_tokenize, sent_tokenize and   *)
(* stopwords are NLTK's; they are modelled for text made of letters,       *)
(* commas, full stops and white space, with words of two letters or more.  *)
(***************************************************************************)
UpperCase == <<"A", "B", "C", "D", "E", "F", "G", "H", "I", "J", "K", "L", "M", "N", "O", "P", "Q", "R", "S", "T", "U", "V", "W", "X", "Y", "Z">>
LowerCase == <<"a", "b", "c", "d", "e", "f", "g", "h", "i", "j", "k", "l", "m", "n", "o", "p", "q", "r", "s", "t", "u", "v", "w", "x", "y", "z">>

\* str.lower()
LowerChar(c) ==
    IF \E k \in 1..Len(UpperCase) : UpperCase[k] = c
    THEN LowerCase[CHOOSE k \in 1..Len(UpperCase) : UpperCase[k] = c]
    ELSE c

lower(s) == [k \in 1..Len(s) |-> LowerChar(s[k])]

\* str.isalnum(): not empty, letters and digits only
isalnum(w) == w # <<>> /\ \A k \in 1..Len(w) : w[k] \in IdChars \ {"_", "-"}

\* stopwords.words('english'), the ones the model's texts use
stop_words == {<<"i", "s">>, <<"t", "h", "e">>, <<"a", "n", "d">>, <<"w", "a", "s">>, <<"i", "n">>}

\* sent_tokenize: a sentence ends with a full stop that white space or the
\* end of the text follows; sentences come without surrounding white space
RECURSIVE SentFrom(_, _, _)
SentFrom(s, i, current) ==
    IF i > Len(s)
    THEN (IF Strip(current) = <<>> THEN <<>> ELSE <<Strip(current)>>)
    ELSE IF s[i] = "." /\ (i = Len(s) \/ s[i + 1] \in Whitespace)
         THEN <<Strip(Append(current, s[i]))>> \o SentFrom(s, i + 1, <<>>)
         ELSE SentFrom(s, i + 1, Append(current, s[i]))

sent_tokenize(s) == SentFrom(s, 1, <<>>)

\* the Treebank tokenizer's substitutions: commas stand alone
RECURSIVE PadCommas(_)
PadCommas(s) ==
    IF s = <<>> THEN <<>>
    ELSE (IF Head(s) = "," THEN <<" ", ",", " ">> ELSE <<Head(s)>>) \o PadCommas(Tail(s))

\* ... and so does the full stop that ends the sentence
PadFinalPeriod(s) ==
    LET t == RStrip(s)
    IN  IF Len(t) >= 2 /\ t[Len(t)] = "." /\ t[Len(t) - 1] # "."
        THEN SubSeq(t, 1, Len(t) - 1) \o <<" ", ".">>
        ELSE t

TreebankTokens(sentence) == Split(PadFinalPeriod(PadCommas(sentence)))

RECURSIVE TokensOf(_)
TokensOf(sentences) ==
    IF sentences = <<>> THEN <<>>
    ELSE TreebankTokens(Head(sentences)) \o TokensOf(Tail(sentences))

\* word_tokenize: the tokens of each sentence, in order
word_tokenize(s) == TokensOf(sent_tokenize(s))

\* [w for w in words if pred]: Keep is the set of words kept
RECURSIVE FilterWords(_, _)
FilterWords(words, Keep) ==
    IF words = <<>> THEN <<>>
    ELSE (IF Head(words) \in Keep THEN <<Head(words)>> ELSE <<>>)
         \o FilterWords(Tail(words), Keep)

Range(seq) == {seq[k] : k \in 1..Len(seq)}

\* Counter(words): the distinct words in the order of their first
\* occurrence, each with its number of occurrences
RECURSIVE CountOf(_, _)
CountOf(words, w) ==
    IF words = <<>> THEN 0
    ELSE (IF Head(words) = w THEN 1 ELSE 0) + CountOf(Tail(words), w)

RECURSIVE CounterFrom(_, _, _)
CounterFrom(words, k, seen) ==
    IF k > Len(words) THEN <<>>
    ELSE IF words[k] \in seen THEN CounterFrom(words, k + 1, seen)
    ELSE <<[word |-> words[k], count |-> CountOf(words, words[k])]>>
         \o CounterFrom(words, k + 1, seen \cup {words[k]})

Counter(words) == CounterFrom(words, 1, {})

\* the list without its k-th element
RemoveAt(list, k) == SubSeq(list, 1, k - 1) \o SubSeq(list, k + 1, Len(list))

\* which of the items with the highest count comes first: the one met last
\* instead of the one met first
FirstOfMax_LastMet(items) ==
    CHOOSE k \in 1..Len(items) :
        /\ \A j \in 1..Len(items) : items[j].count <= items[k].count
        /\ \A j \in (k + 1)..Len(items) : items[j].count < items[k].count

\* sorted(..., key=count, reverse=True) is stable: of the items with the
\* highest count the one met first comes first
FirstOfMax(items) ==
    CHOOSE k \in 1..Len(items) :
        /\ \A j \in 1..Len(items) : items[j].count <= items[k].count
        /\ \A j \in 1..(k - 1) : items[j].count < items[k].count

RECURSIVE SortedByCount(_)
SortedByCount(items) ==
    IF items = <<>> THEN <<>>
    ELSE LET k == FirstOfMax(items)
         IN  <<items[k]>> \o SortedByCount(RemoveAt(items, k))

\* Counter.most_common(n) with n given: heapq.nlargest(n, ...), the first n
\* of the stable descending sort; nothing for n <= 0
most_common(items, n) ==
    LET sorted == SortedByCount(items)
    IN  IF n <= 0 THEN <<>>
        ELSE SubSeq(sorted, 1, IF n < Len(sorted) THEN n ELSE Len(sorted))

\* Python's a / b
TrueDiv(a, b) ==
    IF b = 0 THEN [raised |-> TRUE, num |-> 0, den |-> 1]
    ELSE [raised |-> FALSE, num |-> a, den |-> b]

\* the number 0
Zero == [raised |-> FALSE, num |-> 0, den |-> 1]

\* the division without the guard
AvgWords_NoGuard(words, sentences) == TrueDiv(Len(words), Len(sentences))

\* len(words) / len(sentences) if sentences else 0
AvgWords(words, sentences) ==
    IF sentences # <<>> THEN TrueDiv(Len(words), Len(sentences)) ELSE Zero

get_word_stats(s) ==
    LET words == word_tokenize(lower(s))
        sentences == sent_tokenize(s)
        words_no_stop == FilterWords(words, {w \in Range(words) : isalnum(w) /\ w \notin stop_words})
        avg == AvgWords(words, sentences)
    IN  IF avg.raised THEN [raised |-> TRUE]
        ELSE [raised |-> FALSE,
              word_count |-> Len(words),
              sentence_count |-> Len(sentences),
              avg_words_per_sentence |-> avg,
              unique_words |-> Cardinality(Range(words_no_stop))]

\* the filter without the length condition
KeywordFilter_AnyLength(words, min_length) ==
    {w \in Range(words) : isalnum(w) /\ w \notin stop_words}

\* w.isalnum() and w not in stop_words and len(w) >= min_length
KeywordFilter(words, min_length) ==
    {w \in Range(words) : isalnum(w) /\ w \notin stop_words /\ Len(w) >= min_length}

extract_keywords(s, top_n, min_length) ==
    LET words == word_tokenize(lower(s))
    IN  most_common(Counter(FilterWords(words, KeywordFilter(words, min_length))), top_n)

\* the threshold taken as strict
MeetsMinCount_Strict(count, min_count) == count > min_count

\* count >= min_count
MeetsMinCount(count, min_count) == count >= min_count

RECURSIVE FilterItems(_, _)
FilterItems(items, min_count) ==
    IF items = <<>> THEN <<>>
    ELSE (IF MeetsMinCount(Head(items).count, min_count) THEN <<Head(items)>> ELSE <<>>)
         \o FilterItems(Tail(items), min_count)

get_word_frequency(s, min_count) ==
    LET words == word_tokenize(lower(s))
        freq == Counter(FilterWords(words, {w \in Range(words) : isalnum(w) /\ w \notin stop_words}))
    IN  FilterItems(freq, min_count)

\* the segment closed one word later
SegmentFull_OneLate(word_count, segment_length) == word_count > segment_length

\* word_count >= segment_length
SegmentFull(word_count, segment_length) == word_count >= segment_length

\* the loop `for word in words` from the k-th word on, and what follows it
RECURSIVE SegmentLoop(_, _, _, _, _)
SegmentLoop(words, k, current_segment, word_count, segment_length) ==
    IF k > Len(words)
    THEN (IF current_segment # <<>> THEN <<Join(current_segment, <<" ">>)>> ELSE <<>>)
    ELSE LET seg == Append(current_segment, words[k])
         IN  IF SegmentFull(word_count + 1, segment_length)
             THEN <<Join(seg, <<" ">>)>> \o SegmentLoop(words, k + 1, <<>>, 0, segment_length)
             ELSE SegmentLoop(words, k + 1, seg, word_count + 1, segment_length)

extract_time_segments(transcript_text, segment_length) ==
    SegmentLoop(Split(transcript_text), 1, <<>>, 0, segment_length)

\* the run at the end of a sentence dropped
PhraseAtEnd_Dropped(current_phrase, min_words, max_words) == <<>>

\* after the loop over a sentence's words: the run the sentence ends with
PhraseAtEnd(current_phrase, min_words, max_words) ==
    IF min_words <= Len(current_phrase) /\ Len(current_phrase) <= max_words
    THEN <<Join(current_phrase, <<" ">>)>>
    ELSE <<>>

\* the loop `for word in words` of one sentence from the k-th token on
RECURSIVE PhraseLoop(_, _, _, _, _)
PhraseLoop(words, k, current_phrase, min_words, max_words) ==
    IF k > Len(words) THEN PhraseAtEnd(current_phrase, min_words, max_words)
    ELSE IF isalnum(words[k]) /\ lower(words[k]) \notin stop_words
    THEN PhraseLoop(words, k + 1, Append(current_phrase, words[k]), min_words, max_words)
    ELSE (IF min_words <= Len(current_phrase) /\ Len(current_phrase) <= max_words
          THEN <<Join(current_phrase, <<" ">>)>>
          ELSE <<>>)
         \o PhraseLoop(words, k + 1, <<>>, min_words, max_words)

RECURSIVE PhrasesOf(_, _, _)
PhrasesOf(sentences, min_words, max_words) ==
    IF sentences = <<>> THEN <<>>
    ELSE PhraseLoop(word_tokenize(Head(sentences)), 1, <<>>, min_words, max_words)
         \o PhrasesOf(Tail(sentences), min_words, max_words)

\* most_common(10)
TopPhrases == 10

find_key_phrases(s, min_words, max_words) ==
    most_common(Counter(PhrasesOf(sent_tokenize(s), min_words, max_words)), TopPhrases)

(***************************************************************************)
(* SpecText: the CommandParser functions over texts                        *)
(***************************************************************************)
\* what a text is put together from
TextPieces == {<<"G", "r", "a", "c", "e", " ">>, <<"i", "s", " ">>, <<"s", "a", "v", "e", "s", " ">>, <<"a", "b">>, <<".", " ">>, <<",">>}

\* the number of pieces in a text
MaxPieces == 4

\* the spec's example; a text of eleven one-word sentences, the first
\* repeated; a text with a run of seven words
GraceText == <<"G", "r", "a", "c", "e", " ", "i", "s", " ", "c", "e", "n", "t", "r", "a", "l", ".", " ", "G", "r", "a", "c", "e", " ", "s", "a", "v", "e", "s", ".", " ", "A", "m", "e", "n", ".">>
ElevenText == <<"a", "a", ".", " ", "b", "b", ".", " ", "c", "c", ".", " ", "d", "d", ".", " ", "e", "e", ".", " ", "f", "f", ".", " ", "g", "g", ".", " ", "h", "h", ".", " ", "i", "i", ".", " ", "j", "j", ".", " ", "k", "k", ".", " ", "a", "a", ".">>
RunText == <<"a", "m", "a", "z", "i", "n", "g", " ", "g", "r", "a", "c", "e", " ", "s", "a", "v", "e", "s", " ", "l", "o", "s", "t", " ", "s", "h", "e", "e", "p", " ", "t", "o", "d", "a", "y", " ", "f", "o", "r", "e", "v", "e", "r", " ", "a", "n", "d", " ", "t", "h", "e", " ", "l", "o", "s", "t", " ", "s", "h", "e", "e", "p">>
ExampleTexts == {GraceText, ElevenText, RunText}

\* extract_keywords(text, top_n=10, min_length=3)
TopNs == {0, 1, 2, 10}
MinLengths == {1, 3}

\* get_word_frequency(text, min_count=2)
MinCounts == {1, 2, 3}

\* extract_time_segments(transcript_text, segment_length)
SegmentLengths == {0, 1, 2, 3}

\* find_key_phrases(text, min_words=3, max_words=6)
PhraseLengths == {[min_words |-> 3, max_words |-> 6], [min_words |-> 1, max_words |-> 2],
                  [min_words |-> 2, max_words |-> 2], [min_words |-> 1, max_words |-> 6]}

InitText ==
    /\ \/ \E n \in 0..MaxPieces : \E ps \in [1..n -> TextPieces] : input_text = Join(ps, <<>>)
       \/ input_text \in ExampleTexts
    /\ result = NoResult
    /\ AppInit
    /\ UrlIdle /\ IdIdle /\ CueIdle /\ StoreReady /\ AiIdle

Returned(fn, args, value) ==
    /\ result' = [fn |-> fn, args |-> args, value |-> value]
    /\ UNCHANGED <<input_text, urlVars, appVars, idVars, cueVars, storeVars, aiVars>>

GetWordStats ==
    /\ result = NoResult
    /\ Returned("get_word_stats", <<>>, get_word_stats(input_text))

ExtractKeywords ==
    /\ result = NoResult
    /\ \E top_n \in TopNs, min_length \in MinLengths :
          Returned("extract_keywords", [top_n |-> top_n, min_length |-> min_length],
                   extract_keywords(input_text, top_n, min_length))

GetWordFrequency ==
    /\ result = NoResult
    /\ \E min_count \in MinCounts :
          Returned("get_word_frequency", [min_count |-> min_count],
                   get_word_frequency(input_text, min_count))

ExtractTimeSegments ==
    /\ result = NoResult
    /\ \E segment_length \in SegmentLengths :
          Returned("extract_time_segments", [segment_length |-> segment_length],
                   extract_time_segments(input_text, segment_length))

FindKeyPhrases ==
    /\ result = NoResult
    /\ \E p \in PhraseLengths :
          Returned("find_key_phrases", p, find_key_phrases(input_text, p.min_words, p.max_words))

NextText ==
    \/ GetWordStats
    \/ ExtractKeywords
    \/ GetWordFrequency
    \/ ExtractTimeSegments
    \/ FindKeyPhrases

SpecText == InitText /\ [][NextText]_vars

(***************************************************************************)
(* Properties of the analytics engine (SpecText)                           *)
(***************************************************************************)
RECURSIVE Concat(_)
Concat(lists) == IF lists = <<>> THEN <<>> ELSE Head(lists) \o Concat(Tail(lists))

\* the white-space-split tokens of each segment
SegmentTokens(segments) == [k \in 1..Len(segments) |-> Split(segments[k])]

\* exhaustive, order-preserving, no empty segment
SegmentsCoverText ==
    LET toks == SegmentTokens(result.value)
    IN  /\ Concat(toks) = Split(input_text)
        /\ \A k \in 1..Len(toks) : toks[k] # <<>>

\* every segment but the last has exactly segment_length words
SegmentsAreFull ==
    LET toks == SegmentTokens(result.value)
    IN  \A k \in 1..(Len(toks) - 1) : Len(toks[k]) = result.args.segment_length

\* C12 as stated: for every text and every segment_length the segments'
\* tokens in order are the text's tokens, every segment except possibly the
\* last has exactly segment_length words, and no segment is empty.
C12_SegmentsExactForEveryLength ==
    result.fn = "extract_time_segments" => (SegmentsCoverText /\ SegmentsAreFull)

\* C12 amended: the segments' tokens in order are the text's tokens and no
\* segment is empty, for every segment_length; every segment except possibly
\* the last has exactly segment_length words when segment_length >= 1, and
\* every segment has exactly one word when segment_length is 0.
C12_SegmentsExactForPositiveLength ==
    result.fn = "extract_time_segments" =>
        /\ SegmentsCoverText
        /\ result.args.segment_length >= 1 => SegmentsAreFull
        /\ result.args.segment_length = 0 =>
              \A k \in 1..Len(result.value) : Len(Split(result.value[k])) = 1

\* eleven words in segments of three: 3 + 3 + 3 + 2
C12_Witness ==
    /\ result.fn = "extract_time_segments"
    /\ input_text = RunText
    /\ result.args.segment_length = 3
    /\ Len(result.value) = 4
    /\ result.value[4] = <<"l", "o", "s", "t", " ", "s", "h", "e", "e", "p">>

\* the positions of the tokens the keyword filter keeps
KeptPositions(tokens, min_length) ==
    {i \in 1..Len(tokens) :
        isalnum(tokens[i]) /\ tokens[i] \notin stop_words /\ Len(tokens[i]) >= min_length}

Occurrences(tokens, kept, w) == Cardinality({i \in kept : tokens[i] = w})

NonIncreasing(items) ==
    \A k \in 1..(Len(items) - 1) : items[k].count >= items[k + 1].count

NoWordTwice(items) ==
    \A i \in 1..Len(items) : \A j \in 1..Len(items) :
        items[i].word = items[j].word => i = j

FirstMet(tokens, w) == Leftmost({i \in 1..Len(tokens) : tokens[i] = w})

\* C14: in extract_keywords words with equal counts come in the order in
\* which they are first met in the text, among the words returned and at the
\* cut after top_n; for "Grace is central. Grace saves. Amen." with top_n = 2
\* the result is (grace, 2), (central, 1).
C14_TiesByFirstMet ==
    result.fn = "extract_keywords" =>
        LET tokens == word_tokenize(lower(input_text))
            kept == KeptPositions(tokens, result.args.min_length)
            r == result.value
            returned == {r[k].word : k \in 1..Len(r)}
            left == {tokens[i] : i \in kept} \ returned
        IN  /\ \A k \in 1..(Len(r) - 1) :
                  r[k].count = r[k + 1].count
                      => FirstMet(tokens, r[k].word) < FirstMet(tokens, r[k + 1].word)
            /\ r # <<>> =>
                  \A w \in left :
                      \/ Occurrences(tokens, kept, w) < r[Len(r)].count
                      \/ /\ Occurrences(tokens, kept, w) = r[Len(r)].count
                         /\ FirstMet(tokens, r[Len(r)].word) < FirstMet(tokens, w)
            /\ (input_text = GraceText /\ result.args = [top_n |-> 2, min_length |-> 3])
                  => r = <<[word |-> <<"g", "r", "a", "c", "e">>, count |-> 2], [word |-> <<"c", "e", "n", "t", "r", "a", "l">>, count |-> 1]>>

\* the spec's example: central, saves and amen tie, central is met first
C14_Witness ==
    /\ result.fn = "extract_keywords"
    /\ input_text = GraceText
    /\ result.args = [top_n |-> 2, min_length |-> 3]
    /\ result.value[2] = [word |-> <<"c", "e", "n", "t", "r", "a", "l">>, count |-> 1]

\* C15: get_word_frequency(T, c) returns exactly the pairs (word, count) of
\* the filtered tokens (lower-cased, alphanumeric, not a stopword) whose count
\* is >= c, no word twice.
C15_FrequencyExactlyThreshold ==
    result.fn = "get_word_frequency" =>
        LET tokens == word_tokenize(lower(input_text))
            kept == KeptPositions(tokens, 0)
            r == result.value
        IN  /\ NoWordTwice(r)
            /\ \A k \in 1..Len(r) : r[k].count >= result.args.min_count
            /\ {r[k] : k \in 1..Len(r)} =
                  {[word |-> tokens[i], count |-> Occurrences(tokens, kept, tokens[i])] :
                      i \in {j \in kept :
                                Occurrences(tokens, kept, tokens[j]) >= result.args.min_count}}

\* a word exactly at the threshold is returned, the words below it are not
C15_Witness ==
    /\ result.fn = "get_word_frequency"
    /\ input_text = GraceText
    /\ result.args.min_count = 2
    /\ result.value = <<[word |-> <<"g", "r", "a", "c", "e">>, count |-> 2]>>

\* a token a phrase is made of
IsPhraseWord(tok) == isalnum(tok) /\ lower(tok) \notin stop_words

\* the maximal runs of phrase words within single sentences of s: sentence
\* number, first and last token
MaximalRuns(s) ==
    LET sentences == sent_tokenize(s)
    IN  UNION {LET toks == word_tokenize(sentences[n])
               IN  {[sentence |-> n, from |-> p[1], to |-> p[2]] :
                      p \in {q \in (1..Len(toks)) \X (1..Len(toks)) :
                               /\ q[1] <= q[2]
                               /\ \A k \in q[1]..q[2] : IsPhraseWord(toks[k])
                               /\ q[1] = 1 \/ ~IsPhraseWord(toks[q[1] - 1])
                               /\ q[2] = Len(toks) \/ ~IsPhraseWord(toks[q[2] + 1])}}
               : n \in 1..Len(sentences)}

RunPhrase(s, run) ==
    Join(SubSeq(word_tokenize(sent_tokenize(s)[run.sentence]), run.from, run.to), <<" ">>)

\* C16: every phrase find_key_phrases returns is a maximal run of
\* non-stopword alphanumeric tokens within one sentence, joined by single
\* spaces, with min_words..max_words tokens, counted once per such run; the
\* runs a sentence ends with are emitted under the same rule; at most 10
\* phrases are returned, the counts non-increasing.
C16_PhrasesAreMaximalRuns ==
    result.fn = "find_key_phrases" =>
        LET r == result.value
            inRange == {run \in MaximalRuns(input_text) :
                        /\ result.args.min_words <= run.to - run.from + 1
                        /\ run.to - run.from + 1 <= result.args.max_words}
            phrases == {RunPhrase(input_text, run) : run \in inRange}
        IN  /\ Len(r) <= 10
            /\ NoWordTwice(r)
            /\ NonIncreasing(r)
            /\ \A k \in 1..Len(r) :
                  /\ r[k].word \in phrases
                  /\ r[k].count =
                        Cardinality({run \in inRange : RunPhrase(input_text, run) = r[k].word})
            /\ Cardinality(phrases) <= 10 => phrases = {r[k].word : k \in 1..Len(r)}
            /\ Cardinality(phrases) > 10 => Len(r) = 10

\* "Grace saves " has no full stop: the run is emitted at the sentence's end
C16_Witness ==
    /\ result.fn = "find_key_phrases"
    /\ input_text = <<"G", "r", "a", "c", "e", " ", "s", "a", "v", "e", "s", " ">>
    /\ result.args = [min_words |-> 1, max_words |-> 2]
    /\ result.value = <<[word |-> <<"G", "r", "a", "c", "e", " ", "s", "a", "v", "e", "s">>, count |-> 1]>>

\* C17: get_word_stats returns for every text, the empty one included; the
\* average is 0 when there is no sentence and word_count / sentence_count
\* otherwise; word_count counts the tokens before filtering, unique_words the
\* distinct alphanumeric non-stopword tokens, so unique_words <= word_count.
C17_WordStatsNeverRaise ==
    result.fn = "get_word_stats" =>
        LET tokens == word_tokenize(lower(input_text))
            v == result.value
        IN  /\ ~v.raised
            /\ v.sentence_count = 0 => v.avg_words_per_sentence = Zero
            /\ v.sentence_count # 0 =>
                  /\ v.avg_words_per_sentence.num = v.word_count
                  /\ v.avg_words_per_sentence.den = v.sentence_count
            /\ v.word_count = Len(tokens)
            /\ v.unique_words = Cardinality({tokens[i] : i \in KeptPositions(tokens, 0)})
            /\ v.unique_words <= v.word_count

\* the empty string: no token, no sentence, average 0
C17_Witness ==
    /\ result.fn = "get_word_stats"
    /\ input_text = <<>>
    /\ result.value.sentence_count = 0
    /\ result.value.avg_words_per_sentence = Zero

(***************************************************************************)
(* Database: construction and the other operations. Every operation gives  *)
(* the store after it, what it returns, and whether a store call raised    *)
(* inside it (failed); raised: an exception left the operation.            *)
(***************************************************************************)
\* Database.__init__: url_set and key_set are the environment variables,
\* connect_ok = FALSE makes create_client or the test query raise; attempts
\* counts the connections tried
Database_init(url_set, key_set, connect_ok) ==
    IF ~url_set THEN [state |-> "failed", attempts |-> 0, error |-> "Missing NEXT_PUBLIC_SUPABASE_URL"]
    ELSE IF ~key_set THEN [state |-> "failed", attempts |-> 0, error |-> "Missing NEXT_PUBLIC_SUPABASE_ANON_KEY"]
    ELSE IF connect_ok THEN DatabaseReady
    ELSE [state |-> "failed", attempts |-> 1, error |-> "connection"]

\* try: ... except Exception: return sentinel
Try(outcome, sentinel) ==
    IF outcome.raised
    THEN [db |-> outcome.db, ret |-> sentinel, failed |-> TRUE, raised |-> FALSE]
    ELSE outcome

Returns(d, ret, failed) == [db |-> d, ret |-> ret, failed |-> failed, raised |-> FALSE]

Raises(d) == [db |-> d, ret |-> NoneRow, failed |-> TRUE, raised |-> TRUE]

\* the table's rows as select('*') without an order gives them
get_all_transcripts(d, store_ok) ==
    Try(IF store_ok THEN Returns(d, d.transcripts, FALSE) ELSE Raises(d), <<>>)

\* p occurs in s
Contains(s, p) == \E i \in 1..(Len(s) - Len(p) + 1) : HasAt(s, i, p)

RECURSIVE SelectILike(_, _, _)
SelectILike(table, col, p) ==
    IF table = <<>> THEN <<>>
    ELSE (IF Contains(lower(Head(table)[col]), lower(p)) THEN <<Head(table)>> ELSE <<>>)
         \o SelectILike(Tail(table), col, p)

\* ilike('transcript', '%query%')
search_transcripts(d, query, store_ok) ==
    Try(IF store_ok THEN Returns(d, SelectILike(d.transcripts, "transcript", query), FALSE)
        ELSE Raises(d), <<>>)

\* the fields of the exported rows; json and csv carry every column, txt
\* the title, the video id and the transcript
ExportedRow(format, t) ==
    IF format = "txt"
    THEN [title |-> t.title, video_id |-> t.video_id, transcript |-> t.transcript]
    ELSE t

\* "\n\n".join(...): what stands between two blocks of the txt format
TxtSeparator == <<"\n", "\n">>

\* export_transcripts: its own get_all_transcripts call has already turned a
\* store failure into []
export_transcripts(d, format, store_ok) ==
    LET all == get_all_transcripts(d, store_ok)
        transcripts == all.ret
    IN  Returns(d, [format |-> format,
                    header |-> format = "csv" /\ transcripts # <<>>,
                    fieldnames |-> IF format = "csv" /\ transcripts # <<>>
                                   THEN DOMAIN transcripts[1] ELSE {},
                    separator |-> IF format = "txt" THEN TxtSeparator ELSE <<>>,
                    records |-> [k \in 1..Len(transcripts) |-> ExportedRow(format, transcripts[k])]],
                all.failed)

get_categories(d, video_id, get_ok, store_ok) ==
    LET transcript == get_transcript(d, video_id, get_ok)
    IN  IF transcript = NoneRow THEN Returns(d, NoCategories, ~get_ok)
        ELSE Try(IF ~store_ok THEN Raises(d)
                 ELSE LET data == SelectEq(d.categories, "transcript_id", transcript.id)
                      IN  Returns(d, IF data # <<>>
                                     THEN [christian_life  |-> data[1].christian_life,
                                           church_ministry |-> data[1].church_ministry,
                                           theology        |-> data[1].theology]
                                     ELSE NoCategories, ~get_ok),
                 NoCategories)

\* the stories related to a transcript, in the order of the relationships
RECURSIVE JoinStories(_, _)
JoinStories(relations, stories) ==
    IF relations = <<>> THEN <<>>
    ELSE SelectEq(stories, "id", Head(relations).story_id) \o JoinStories(Tail(relations), stories)

get_personal_stories(d, video_id, get_ok, store_ok) ==
    LET transcript == get_transcript(d, video_id, get_ok)
    IN  IF transcript = NoneRow THEN Returns(d, <<>>, ~get_ok)
        ELSE Try(IF ~store_ok THEN Raises(d)
                 ELSE Returns(d, JoinStories(SelectEq(d.transcript_stories, "transcript_id",
                                                      transcript.id), d.stories), ~get_ok),
                 <<>>)

\* delete().eq(col, val)
RECURSIVE DeleteEq(_, _, _)
DeleteEq(table, col, val) ==
    IF table = <<>> THEN <<>>
    ELSE (IF Head(table)[col] = val THEN <<>> ELSE <<Head(table)>>)
         \o DeleteEq(Tail(table), col, val)

\* the store calls of update_personal_stories that can raise: the delete,
\* and for the k-th story the insert of the story and of its relationship
StoryFaults == {<<"none", 0>>, <<"get_transcript", 0>>, <<"delete", 0>>,
                <<"insert_story", 1>>, <<"insert_relation", 1>>,
                <<"insert_story", 2>>, <<"insert_relation", 2>>}

\* `for story in stories` from the k-th story on; each story has its own
\* try/except, which prints and goes on
RECURSIVE StoryLoop(_, _, _, _, _, _, _)
StoryLoop(d, transcript_id, stories, k, successful_stories, fault, failed) ==
    IF k > Len(stories)
    THEN [db |-> d, successful_stories |-> successful_stories, failed |-> failed]
    ELSE IF fault = <<"insert_story", k>>
    THEN StoryLoop(d, transcript_id, stories, k + 1, successful_stories, fault, TRUE)
    ELSE LET row == Merge(BlankStory(d.stories), stories[k])
             d1 == [d EXCEPT !.stories = Append(@, row)]
         IN  IF fault = <<"insert_relation", k>>
             THEN StoryLoop(d1, transcript_id, stories, k + 1, successful_stories, fault, TRUE)
             ELSE StoryLoop([d1 EXCEPT !.transcript_stories =
                                Append(@, [transcript_id |-> transcript_id, story_id |-> row.id])],
                            transcript_id, stories, k + 1, successful_stories + 1, fault, failed)

update_personal_stories(d, video_id, stories, fault) ==
    LET transcript == get_transcript(d, video_id, fault # <<"get_transcript", 0>>)
    IN  IF transcript = NoneRow THEN Returns(d, FALSE, fault = <<"get_transcript", 0>>)
        ELSE LET deleted == IF fault = <<"delete", 0>> THEN d
                            ELSE [d EXCEPT !.transcript_stories =
                                     DeleteEq(@, "transcript_id", transcript.id)]
                 loop == StoryLoop(deleted, transcript.id, stories, 1, 0, fault,
                                   fault = <<"delete", 0>>)
             IN  Returns(loop.db, loop.successful_stories > 0, loop.failed)

(***************************************************************************)
(* SpecDb: a Database object, constructed and then used                    *)
(***************************************************************************)
\* how many coming connection attempts the store refuses
Outages == {0, 1, 2}

NotConstructed == [state |-> "absent", attempts |-> 0, error |-> "none"]

\* the transcript a video has
TextOf(video_id) == IF video_id = VidA THEN Join(Cues1, <<" ">>) ELSE Join(Cues2, <<" ">>)

SomeCategories == [christian_life |-> <<"Joy">>, church_ministry |-> <<>>, theology |-> <<"Sin">>]

Story1 == [title |-> "The lost sheep", summary |-> "s1", message |-> "m1"]
Story2 == [title |-> "The flood", summary |-> "s2", message |-> "m2"]

StoryLists == {<<>>, <<Story1>>, <<Story1, Story2>>}

Queries == {<<"G", "R", "A", "C", "E">>, <<"t", "h", "e">>, <<"z", "z">>}

Formats == {"json", "csv", "txt"}

\* the rows the stories table may hold
MaxStories == 2

InitDb ==
    /\ db = EmptyDb
    /\ database = NotConstructed
    /\ outage \in Outages
    /\ db_call = NoDbCall
    /\ assigned = [v \in Videos |-> NotAssigned]
    /\ current_command = None
    /\ show_transcript_id = NoId
    /\ form_video = NoId
    /\ pc = "idle"
    /\ clicked = [widget |-> "none", action |-> "none"]
    /\ flow = NoFlow
    /\ run_end = "completed"
    /\ runs = 0
    /\ playlist = NoPlaylist
    /\ writes = [v \in Videos |-> NoWrite]
    /\ UrlIdle /\ IdIdle /\ CueIdle /\ TextIdle /\ AiIdle

dbFrame == <<current_command, show_transcript_id, form_video, pc, clicked, flow, run_end,
             runs, playlist, writes, urlVars, idVars, cueVars, textVars, aiVars>>

\* db = Database() at the start of a script run; a run that ended in the
\* exception is followed by the next run
Construct ==
    /\ database.state # "ready"
    /\ \E url_set \in BOOLEAN, key_set \in BOOLEAN :
          LET made == Database_init(url_set, key_set, outage = 0)
          IN  /\ database' = made
              /\ outage' = IF made.attempts > 0 /\ outage > 0 THEN outage - 1 ELSE outage
    /\ db_call' = NoDbCall
    /\ UNCHANGED <<db, assigned, dbFrame>>

Noted(op, r) ==
    /\ db' = r.db
    /\ db_call' = [op |-> op, ret |-> r.ret, failed |-> r.failed, raised |-> r.raised]
    /\ UNCHANGED <<database, outage, dbFrame>>

Called(op, r) ==
    /\ Noted(op, r)
    /\ UNCHANGED assigned

\* the object is constructed and its caller has taken the last result
Ready ==
    /\ database.state = "ready"
    /\ db_call = NoDbCall

InsertTranscript ==
    /\ Ready
    /\ \E v \in Videos, store_ok \in BOOLEAN :
          LET r == insert_transcript(db, v, VideoTitle(v), TextOf(v), store_ok)
          IN  Called("insert_transcript", Returns(r.db, r.ret, ~store_ok))

GetTranscript ==
    /\ Ready
    /\ \E v \in Videos, store_ok \in BOOLEAN :
          Called("get_transcript", Returns(db, get_transcript(db, v, store_ok), ~store_ok))

VideoExists ==
    /\ Ready
    /\ \E v \in Videos, store_ok \in BOOLEAN :
          Called("video_exists", Returns(db, video_exists(db, v, store_ok), ~store_ok))

GetAllTranscripts ==
    /\ Ready
    /\ \E store_ok \in BOOLEAN :
          Called("get_all_transcripts", get_all_transcripts(db, store_ok))

SearchTranscripts ==
    /\ Ready
    /\ \E query \in Queries, store_ok \in BOOLEAN :
          Called("search_transcripts", search_transcripts(db, query, store_ok))

ExportTranscripts ==
    /\ Ready
    /\ \E format \in Formats, store_ok \in BOOLEAN :
          Called("export_transcripts", export_transcripts(db, format, store_ok))

UpdateTranscriptSummary ==
    /\ Ready
    /\ \E v \in Videos, store_ok \in BOOLEAN :
          LET r == update_transcript_summary(db, v, "summary", store_ok)
          IN  Called("update_transcript_summary", Returns(r.db, r.ret, ~store_ok))

\* the store call that raises in an operation that first looks the transcript up
LookupFaults == {"none", "get_transcript", "table"}

GetCategories ==
    /\ Ready
    /\ \E v \in Videos, fault \in LookupFaults :
          Called("get_categories",
                 get_categories(db, v, fault # "get_transcript", fault # "table"))

UpdateCategories ==
    /\ Ready
    /\ \E v \in Videos, fault \in LookupFaults :
          LET r == update_categories(db, v, SomeCategories, fault # "get_transcript",
                                     fault # "table")
          IN  Called("update_categories",
                     Returns(r.db, r.ret,
                             \/ fault = "get_transcript"
                             \/ fault = "table" /\ get_transcript(db, v, TRUE) # NoneRow))

GetPersonalStories ==
    /\ Ready
    /\ \E v \in Videos, fault \in LookupFaults :
          Called("get_personal_stories",
                 get_personal_stories(db, v, fault # "get_transcript", fault # "table"))

UpdatePersonalStories ==
    /\ Ready
    /\ \E v \in Videos, stories \in StoryLists, fault \in StoryFaults :
          /\ fault[2] <= Len(stories)
          /\ Len(db.stories) + Len(stories) <= MaxStories
          /\ Called("update_personal_stories", update_personal_stories(db, v, stories, fault))

\* the caller takes what the operation returned and goes on
TakeResult ==
    /\ db_call # NoDbCall
    /\ db_call' = NoDbCall
    /\ UNCHANGED <<db, database, outage, assigned, dbFrame>>

NextDb ==
    \/ Construct
    \/ InsertTranscript
    \/ GetTranscript
    \/ VideoExists
    \/ GetAllTranscripts
    \/ SearchTranscripts
    \/ ExportTranscripts
    \/ UpdateTranscriptSummary
    \/ GetCategories
    \/ UpdateCategories
    \/ GetPersonalStories
    \/ UpdatePersonalStories
    \/ TakeResult

SpecDb == InitDb /\ [][NextDb]_vars

(***************************************************************************)
(* Properties of the Database object (SpecDb)                              *)
(***************************************************************************)
\* what each operation returns for a failure: None, False, [] or an empty result
IsSentinel(op, ret) ==
    CASE op = "insert_transcript" -> ret = NoId
      [] op \in {"get_transcript", "video_exists"} -> ret = NoneRow
      [] op \in {"get_all_transcripts", "search_transcripts", "get_personal_stories"} -> ret = <<>>
      [] op = "export_transcripts" -> ret.records = <<>>
      [] op = "get_categories" -> ret = NoCategories
      [] op \in {"update_transcript_summary", "update_categories", "update_personal_stories"}
            -> ret = FALSE

\* C18: in every Database operation after construction a failure raised by
\* the backing store is caught inside the operation and returned as the
\* operation's sentinel; no store exception reaches the caller.
C18_StoreFailureGivesSentinel ==
    (db_call.op # "none" /\ db_call.failed) =>
        (~db_call.raised /\ IsSentinel(db_call.op, db_call.ret))

\* C19: a connection failure during Database initialization is followed by
\* further attempts: initialization fails on the connection only after more
\* than one attempt, all refused.
C19_ConnectionRetried ==
    (database.state = "failed" /\ database.error = "connection") => database.attempts >= 2

(***************************************************************************)
(* A second specification for the categorization alone: one call of       *)
(* categorize_transcript on a text, with every kind of answer the service  *)
(* can give.                                                               *)
(***************************************************************************)

\* the texts handed to categorize_transcript
AiTexts ==
    {<<>>, <<"a", "m", "e", "n">>, <<" ", " ", " ", " ", "a", "m", "e", "n", " ", " ", " ", " ", " ">>, <<"g", "r", "a", "c", "e", " ", "a", "n", "d", " ", "p", "e", "a", "c", "e", " ", "t", "o", " ", "y", "o", "u">>}

\* what may stand before and after the object in an answer
Surroundings == {<<>>, <<Prose>>}

\* the middle of an answer
ResponseBodies ==
    {<<>>,
     <<Open, Close>>,
     <<Open, Member("christian_life", "list", <<"Joy", "Hope">>),
       Member("theology", "list", <<"Sin">>), Close>>,
     <<Open, Member("christian_life", "list", <<"Sin", "Fear">>),
       Member("church_ministry", "list", <<"Grace", "Joy">>),
       Member("topics", "list", <<"Joy">>), Close>>,
     <<Open, Member("christian_life", "list", <<"Joy", "Joy">>),
       Member("christian_life", "list", <<"Fear", "7">>), Close>>,
     <<Open, Member("christian_life", "string", <<"J", "o", "y">>), Close>>,
     <<Open, Member("theology", "object", <<"Sin", "Joy">>), Close>>,
     <<Open, Member("theology", "null", <<>>),
       Member("christian_life", "list", <<"Joy">>), Close>>,
     <<Open, Member("church_ministry", "number", <<>>), Close>>,
     <<Open, Member("theology", "list", <<"Sin">>)>>,
     <<Open, Prose, Close>>,
     <<Open, Open, Member("theology", "list", <<"Sin">>), Close, Close>>,
     <<Open, Prose, Close, Prose, Open, Member("theology", "list", <<"Sin", "Hope">>), Close>>,
     <<Open, Member("theology", "list", <<"Sin">>), Close, Open, Close>>}

ServiceResponses ==
    {[raises |-> TRUE, response_text |-> <<>>]}
    \cup {[raises |-> FALSE, response_text |-> before \o body \o after] :
            before \in Surroundings, body \in ResponseBodies, after \in Surroundings}

InitAi ==
    /\ AppInit /\ UrlIdle /\ IdIdle /\ CueIdle /\ StoreReady
    /\ input_text \in AiTexts
    /\ result = NoResult
    /\ ai_call = NoAiCall

Categorized(response, ret) ==
    /\ ai_call' = [called |-> TRUE, response |-> response, ret |-> ret]
    /\ UNCHANGED <<urlVars, appVars, idVars, cueVars, textVars, storeVars>>

CategorizeTranscript ==
    /\ ai_call = NoAiCall
    /\ \E response \in ServiceResponses :
          Categorized(response, categorize_transcript(input_text, response))

NextAi == CategorizeTranscript

SpecAi == InitAi /\ [][NextAi]_vars

CategoryTypes == {"christian_life", "church_ministry", "theology"}

Vocabulary(type) ==
    CASE type = "christian_life" -> CHRISTIAN_LIFE_CATEGORIES
      [] type = "church_ministry" -> CHURCH_MINISTRY_CATEGORIES
      [] type = "theology" -> THEOLOGY_CATEGORIES

\* C20: whatever the service answers (an exception, prose, malformed or
\* partial JSON, unknown names, names of another type), categorize_transcript
\* returns exactly the three category types, and every name listed under a
\* type belongs to that type's vocabulary.
C20_ThreeTypesFromOwnVocabulary ==
    ai_call # NoAiCall =>
        /\ DOMAIN ai_call.ret.categories = CategoryTypes
        /\ \A type \in CategoryTypes :
              \A k \in 1..Len(ai_call.ret.categories[type]) :
                  ai_call.ret.categories[type][k] \in Vocabulary(type)

\* an answer with an unknown name and a name of another type, wrapped in prose
C20_Witness ==
    /\ ai_call # NoAiCall
    /\ ~ai_call.response.raises
    /\ ai_call.response.response_text =
          <<Prose, Open, Member("christian_life", "list", <<"Sin", "Fear">>),
            Member("church_ministry", "list", <<"Grace", "Joy">>),
            Member("topics", "list", <<"Joy">>), Close, Prose>>
    /\ ai_call.ret.categories =
          [christian_life |-> <<"Fear">>, church_ministry |-> <<"Grace">>,
           theology |-> <<>>]

(***************************************************************************)
(* A specification for the category assignments alone: transcripts are     *)
(* stored, their categories are generated again and again with different   *)
(* sets, and read back.                                                    *)
(***************************************************************************)

\* the dicts handed to update_categories; the last one names one type only
CategorySets ==
    {SomeCategories,
     [christian_life |-> <<"Fear">>, church_ministry |-> <<"Grace">>, theology |-> <<>>],
     [theology |-> <<"Sin">>]}

\* the successful update_categories calls counted per video
MaxAssigned == 2

InitCat ==
    /\ AppInit /\ UrlIdle /\ IdIdle /\ CueIdle /\ TextIdle /\ StoreReady /\ AiIdle

\* update_categories with the sets of a new categorization
RegenerateCategories ==
    /\ Ready
    /\ \E v \in Videos, categories \in CategorySets, fault \in LookupFaults :
          LET r == update_categories(db, v, categories, fault # "get_transcript",
                                     fault # "table")
          IN  /\ Noted("update_categories",
                       Returns(r.db, r.ret,
                               \/ fault = "get_transcript"
                               \/ fault = "table" /\ get_transcript(db, v, TRUE) # NoneRow))
              /\ assigned' =
                    IF r.ret
                    THEN [assigned EXCEPT ![v] =
                             [n |-> IF @.n < MaxAssigned THEN @.n + 1 ELSE @.n,
                              categories |-> categories]]
                    ELSE assigned

NextCat ==
    \/ InsertTranscript
    \/ RegenerateCategories
    \/ GetCategories
    \/ TakeResult

SpecCat == InitCat /\ [][NextCat]_vars

\* the categories rows of a video's transcript
CategoryRowsOf(v) ==
    LET transcript == get_transcript(db, v, TRUE)
    IN  IF transcript = NoneRow THEN <<>>
        ELSE SelectEq(db.categories, "transcript_id", transcript.id)

\* the three sets a dict passes: a type it does not name is empty
SetsPassed(categories) ==
    [christian_life  |-> DictGet(categories, "christian_life", <<>>),
     church_ministry |-> DictGet(categories, "church_ministry", <<>>),
     theology        |-> DictGet(categories, "theology", <<>>)]

\* C21: after any sequence of successful update_categories calls for a
\* stored transcript there is one category assignment for it, and
\* get_categories returns exactly the sets of the most recent call, nothing
\* of an earlier call.
C21_LastCategoriesReplaceEarlier ==
    \A v \in Videos :
        assigned[v].n > 0 =>
            /\ Len(CategoryRowsOf(v)) = 1
            /\ get_categories(db, v, TRUE, TRUE).ret = SetsPassed(assigned[v].categories)

\* a second generation that names one type only, read back
C21_Witness ==
    /\ assigned[VidA].n = 2
    /\ assigned[VidA].categories = [theology |-> <<"Sin">>]
    /\ db_call.op = "get_categories"
    /\ db_call.ret = [christian_life |-> <<>>, church_ministry |-> <<>>, theology |-> <<"Sin">>]
    /\ assigned[VidB].categories = SomeCategories

(***************************************************************************)
(* Properties of the personal stories (SpecDb)                             *)
(***************************************************************************)
\* the stories get_personal_stories finds for a video in a store
StoriesOf(d, v) == get_personal_stories(d, v, TRUE, TRUE).ret

\* the stored story carries the columns of one of the given stories
DrawnFrom(row, stories) ==
    \E j \in 1..Len(stories) :
        /\ row.title = stories[j].title
        /\ row.summary = stories[j].summary
        /\ row.message = stories[j].message

\* the step is the call update_personal_stories(v, stories) with the fault
IsStoryUpdate(v, stories, fault) ==
    LET r == update_personal_stories(db, v, stories, fault)
    IN  /\ Ready
        /\ fault[2] <= Len(stories)
        /\ Len(db.stories) + Len(stories) <= MaxStories
        /\ db' = r.db
        /\ db_call'.op = "update_personal_stories"
        /\ db_call'.ret = r.ret
        /\ db_call'.failed = r.failed
        /\ db_call'.raised = r.raised

\* C22: after update_personal_stories(video_id, S) has found the transcript
\* and returned, the stories associated with the transcript are drawn only
\* from S: the earlier relationships are gone, also when the removal step
\* itself fails.
C22_StoriesOnlyFromLastCall ==
    [][\A v \in Videos, stories \in StoryLists, fault \in StoryFaults :
          (/\ IsStoryUpdate(v, stories, fault)
           /\ fault # <<"get_transcript", 0>>
           /\ get_transcript(db, v, TRUE) # NoneRow)
          => \A k \in 1..Len(StoriesOf(db', v)) : DrawnFrom(StoriesOf(db', v)[k], stories)]_vars

(***************************************************************************)
(* Properties of listing, search and export (SpecDb)                       *)
(***************************************************************************)
\* the list holds every stored transcript row once
AllStoredRows(list) ==
    /\ Len(list) = Len(db.transcripts)
    /\ \A k \in 1..Len(db.transcripts) : \E j \in 1..Len(list) : list[j] = db.transcripts[k]

\* C23: get_all_transcripts returns all stored transcript rows, most recent
\* first: of two rows in the result the one with the later created_at
\* precedes the other.
C23_ListedMostRecentFirst ==
    (db_call.op = "get_all_transcripts" /\ ~db_call.failed) =>
        /\ AllStoredRows(db_call.ret)
        /\ \A i, j \in 1..Len(db_call.ret) :
              db_call.ret[i].created_at > db_call.ret[j].created_at => i < j

\* the search view of main.py for the results of a query: one expander per
\* result showing result['highlight']; a result without the key ends the
\* run in a KeyError
RECURSIVE search_view(_)
search_view(results) ==
    IF results = <<>> THEN [shown |-> <<>>, raised |-> "none"]
    ELSE IF "highlight" \notin DOMAIN Head(results)
    THEN [shown |-> <<>>, raised |-> "KeyError"]
    ELSE LET rest == search_view(Tail(results))
         IN  [shown |-> <<Head(results).highlight>> \o rest.shown, raised |-> rest.raised]

\* the stored transcripts whose text holds the query, whatever the case
Matching(query) ==
    {k \in 1..Len(db.transcripts) :
        Contains(lower(db.transcripts[k].transcript), lower(query))}

\* the step is the call search_transcripts(query), answered by the store
IsSearch(query) ==
    /\ Ready
    /\ db_call'.op = "search_transcripts"
    /\ ~db_call'.failed
    /\ db_call'.ret = search_transcripts(db, query, TRUE).ret

\* C24: search(query) returns one record per matching stored transcript,
\* each carrying video_id, title and a highlight excerpt, in an order fixed
\* by the query and the store contents, and the search view can render the
\* highlight of every returned record.
C24_SearchRecordsCarryHighlight ==
    [][\A query \in Queries :
          IsSearch(query) =>
              LET results == db_call'.ret
              IN  /\ Len(results) = Cardinality(Matching(query))
                  /\ \A k \in Matching(query) :
                        \E j \in 1..Len(results) :
                            results[j].video_id = db.transcripts[k].video_id
                  /\ \A j \in 1..Len(results) :
                        {"video_id", "title", "highlight"} \subseteq DOMAIN results[j]
                  /\ search_view(results).raised = "none"]_vars

\* C25: for a store holding n transcripts export_transcripts('csv') gives
\* one header line and exactly n data records, each with as many fields as
\* the header, and the header is the four fields video_id, title,
\* transcript, created_at.
C25_CsvHeaderAndOneRecordPerRow ==
    (/\ db_call.op = "export_transcripts"
     /\ ~db_call.failed
     /\ db_call.ret.format = "csv") =>
        /\ db_call.ret.header
        /\ db_call.ret.fieldnames = {"video_id", "title", "transcript", "created_at"}
        /\ Len(db_call.ret.records) = Len(db.transcripts)
        /\ \A k \in 1..Len(db_call.ret.records) :
              Cardinality(DOMAIN db_call.ret.records[k]) = Cardinality(db_call.ret.fieldnames)

\* the characters a rule line is drawn with
RuleChars == {"-", "=", "_", "*", "#"}

\* the separator holds a line of rule characters
HasRuleLine(separator) ==
    \E i \in 1..Len(separator) : separator[i] \in RuleChars

\* C26: each export format (json, csv, txt) carries for every stored
\* transcript the same set of fields, with at least video_id, title,
\* transcript and created_at, and the txt format separates two transcript
\* blocks by a rule line.
C26_FormatsCarrySameFields ==
    (db_call.op = "export_transcripts" /\ ~db_call.failed) =>
        /\ Len(db_call.ret.records) = Len(db.transcripts)
        /\ \A k \in 1..Len(db_call.ret.records) :
              /\ {"video_id", "title", "transcript", "created_at"}
                    \subseteq DOMAIN db_call.ret.records[k]
              /\ \A format \in Formats :
                    DOMAIN export_transcripts(db, format, TRUE).ret.records[k]
                        = DOMAIN db_call.ret.records[k]
        /\ (db_call.ret.format = "txt" /\ Len(db_call.ret.records) >= 2)
              => HasRuleLine(db_call.ret.separator)

(***************************************************************************)
(* Properties of the ingestion's categories and summary (Spec)             *)
(***************************************************************************)
\* C27: after a single-video ingestion that stored the transcript, in which
\* the categorization returned the validated sets C, the categories
\* get_categories reads back for the transcript equal C for each type.
C27_StoredCategoriesAreValidatedSets ==
    flow.outcome = "stored" =>
        get_categories(db, flow.video_id, TRUE, TRUE).ret = flow.categorized

\* C28: when the summarization service fails during a single-video
\* ingestion the transcript is still stored and its ai_summary is left
\* empty; no error-message text is ever persisted as the ai_summary of a
\* transcript.
C28_NoErrorTextAsSummary ==
    /\ \A k \in 1..Len(db.transcripts) : db.transcripts[k].ai_summary # SummaryError
    /\ (flow.outcome = "stored" /\ ~flow.summary_ok) =>
          /\ RowsOf(flow.video_id) # <<>>
          /\ RowsOf(flow.video_id)[1].ai_summary = None

(***************************************************************************)
(* AIHelper.extract_personal_stories and the "Extract Stories" button of   *)
(* the view_video page                                                     *)
(***************************************************************************)
\* len(text.strip()) < 100
MinStoryChars == 100

\* what extract_personal_stories returns
Extraction(stories, rate_limited, error) ==
    [stories |-> stories, rate_limited |-> rate_limited, errors |-> <<error>>]

\* json.loads(response_text), then the fallback regex: both except branches
\* append to debug_info before it is assigned, which raises UnboundLocalError
ParseStories(response_text) ==
    LET direct == json_loads(response_text)
        json_match == FallbackMatch(response_text)
        second == IF json_match # <<>> THEN json_loads(json_match)
                  ELSE [ok |-> FALSE, keys |-> {}, members |-> <<>>]
    IN  IF direct.ok THEN [raised |-> FALSE, parsed_data |-> direct]
        ELSE IF second.ok THEN [raised |-> FALSE, parsed_data |-> second]
        ELSE [raised |-> TRUE, parsed_data |-> EmptyObject]

\* extract_personal_stories: the outer except turns every exception into an
\* empty list of stories; rate_limited is "rate limit" in str(e).lower()
extract_personal_stories(text, response) ==
    IF text = <<>> \/ Len(Strip(text)) < MinStoryChars
    THEN Extraction(<<>>, FALSE, "Text too short to process")
    ELSE IF response.raises
    THEN Extraction(<<>>, response.says_rate_limit, "service")
    ELSE LET p == ParseStories(response.response_text)
         IN  IF p.raised THEN Extraction(<<>>, FALSE, "UnboundLocalError")
             ELSE IF "stories" \notin p.parsed_data.keys
             THEN Extraction(<<>>, FALSE, "none")
             ELSE Extraction(LastValue(p.parsed_data.members, "stories").items, FALSE, "none")

\* `if st.button("Extract Stories")`: the message shown and the store after
ExtractStoriesHandler(d, video_id, transcript, response, fault) ==
    LET extraction_result == extract_personal_stories(transcript, response)
    IN  IF extraction_result.rate_limited
        THEN [db |-> d, extraction |-> extraction_result, shown |-> "rate_limit",
              control |-> "return"]
        ELSE [db |-> update_personal_stories(d, video_id, extraction_result.stories, fault).db,
              extraction |-> extraction_result, shown |-> "success", control |-> "rerun"]

(***************************************************************************)
(* A specification for the stories page: sermons are stored, one is        *)
(* opened, and its stories are extracted again and again.                  *)
(***************************************************************************)
RECURSIVE Repeated(_, _)
Repeated(s, n) == IF n = 0 THEN <<>> ELSE s \o Repeated(s, n - 1)

\* how often the short text is repeated to make a sermon
SermonRepeats == 8

\* the transcript of a video: a sermon for the first, a few words for the other
SermonOf(video_id) ==
    IF video_id = VidA THEN Repeated(TextOf(VidA) \o <<" ">>, SermonRepeats)
    ELSE TextOf(video_id)

\* what the story service answers
StoryResponses ==
    {[raises |-> TRUE, says_rate_limit |-> TRUE, response_text |-> <<>>],
     [raises |-> TRUE, says_rate_limit |-> FALSE, response_text |-> <<>>]}
    \cup {[raises |-> FALSE, says_rate_limit |-> FALSE, response_text |-> text] :
            text \in {<<Open, Member("stories", "list", <<Story1>>), Close>>,
                      <<Open, Member("stories", "list", <<Story1, Story2>>), Close>>,
                      <<Open, Member("stories", "list", <<>>), Close>>,
                      <<Prose, Open, Member("stories", "list", <<Story2>>), Close>>,
                      <<Open, Member("anecdotes", "list", <<Story1>>), Close>>,
                      <<Prose>>,
                      <<Open, Member("stories", "list", <<Story1>>)>>,
                      <<Open, Member("stories", "list", <<Story1>>), Close, Prose>>}}

InitStories ==
    /\ AppInit /\ UrlIdle /\ IdIdle /\ CueIdle /\ TextIdle /\ StoreReady /\ AiIdle

storiesFrame == <<form_video, pc, clicked, flow, run_end, runs, playlist, writes,
                  urlVars, idVars, cueVars, textVars, storeVars>>

\* a sermon is ingested
StoreSermon ==
    /\ \E v \in Videos :
          db' = insert_transcript(db, v, VideoTitle(v), SermonOf(v), TRUE).db
    /\ UNCHANGED <<current_command, show_transcript_id, ai_call, storiesFrame>>

\* "View Details" on the list page
ViewDetails ==
    /\ \E k \in 1..Len(db.transcripts) :
          show_transcript_id' = db.transcripts[k].video_id
    /\ current_command' = "view_video"
    /\ UNCHANGED <<db, ai_call, storiesFrame>>

\* the click on "Extract Stories" on the page of the video shown
ExtractStories ==
    /\ current_command = "view_video"
    /\ show_transcript_id # NoId
    /\ get_transcript(db, show_transcript_id, TRUE) # NoneRow
    /\ \E response \in StoryResponses, fault \in {<<"none", 0>>, <<"delete", 0>>} :
          LET result_row == get_transcript(db, show_transcript_id, TRUE)
              h == ExtractStoriesHandler(db, show_transcript_id, result_row.transcript,
                                         response, fault)
          IN  /\ Len(db.stories) + Len(h.extraction.stories) <= MaxStories
              /\ db' = h.db
              /\ ai_call' = [called |-> TRUE, video_id |-> show_transcript_id,
                             response |-> response, extraction |-> h.extraction,
                             shown |-> h.shown,
                             before |-> StoriesOf(db, show_transcript_id)]
    /\ UNCHANGED <<current_command, show_transcript_id, storiesFrame>>

NextStories ==
    \/ StoreSermon
    \/ ViewDetails
    \/ ExtractStories

SpecStories == InitStories /\ [][NextStories]_vars

\* the service raised, or its answer could not be read as JSON
ServiceFailed(response) ==
    \/ response.raises
    \/ /\ ~json_loads(response.response_text).ok
       /\ ~json_loads(FallbackMatch(response.response_text)).ok

\* C29: a story extraction that fails in the AI service (a rate-limit error,
\* another service exception, or an unparseable response) performs no
\* destructive write: the stories associated with the transcript before the
\* "Extract Stories" action are still associated with it afterwards, and a
\* rate-limit failure is reported distinctly from other failures.
C29_FailedExtractionKeepsStories ==
    (/\ ai_call # NoAiCall
     /\ Len(Strip(SermonOf(ai_call.video_id))) >= MinStoryChars
     /\ ServiceFailed(ai_call.response)) =>
        /\ StoriesOf(db, ai_call.video_id) = ai_call.before
        /\ (ai_call.shown = "rate_limit")
              <=> (ai_call.response.raises /\ ai_call.response.says_rate_limit)

(***************************************************************************)
(* TranscriptProcessor: the cue list kept between calls and                *)
(* get_sentences_with_timestamps                                           *)
(***************************************************************************)
Cue(text, start) == [text |-> text, start |-> start]

\* current_start_time = None
NoStart == -1

\* text.endswith(('.', '!', '?'))
EndsSentence(text) == text # <<>> /\ text[Len(text)] \in {".", "!", "?"}

\* the for loop over the entries from the k-th on, then the remaining text
RECURSIVE SentenceLoop(_, _, _, _, _)
SentenceLoop(entries, k, results, current_sentence, current_start_time) ==
    IF k > Len(entries)
    THEN IF current_sentence # <<>>
         THEN Append(results,
                     [text  |-> Join(current_sentence, <<" ">>),
                      start |-> IF current_start_time \in {NoStart, 0} THEN 0
                                ELSE current_start_time])
         ELSE results
    ELSE LET text == Strip(entries[k].text)
             start == IF current_start_time = NoStart THEN entries[k].start
                      ELSE current_start_time
         IN  IF text = <<>>
             THEN SentenceLoop(entries, k + 1, results, current_sentence, current_start_time)
             ELSE IF EndsSentence(text)
             THEN SentenceLoop(entries, k + 1,
                               Append(results,
                                      [text  |-> Join(Append(current_sentence, text), <<" ">>),
                                       start |-> start]),
                               <<>>, NoStart)
             ELSE SentenceLoop(entries, k + 1, results, Append(current_sentence, text), start)

\* get_sentences_with_timestamps(transcript): the argument is never read
get_sentences_with_timestamps(transcript, kept) ==
    IF kept = <<>> THEN <<>> ELSE SentenceLoop(kept, 1, <<>>, <<>>, NoStart)

\* the except branch of extract_transcript, whatever raw is
AfterFailure(kept, raw) == <<>>

\* _last_transcript after extract_transcript(video_id, raw)
KeptAfter(kept, api, raw) ==
    IF api.raises THEN AfterFailure(kept, raw)
    ELSE IF raw THEN kept
    ELSE api.cues

\* what extract_transcript(video_id, raw) returns: the list or the joined
\* texts, [] or "" after a failure
ReturnedTranscript(api, raw) ==
    IF raw THEN api.cues
    ELSE Join([k \in 1..Len(api.cues) |-> api.cues[k].text], <<" ">>)

(***************************************************************************)
(* A specification for the cue list: transcripts are extracted, raw or     *)
(* not, and the sentences are asked for.                                   *)
(***************************************************************************)
\* what the transcript source gives: cue lists with times, or a failure
CueApiResults ==
    {[raises |-> TRUE, cues |-> <<>>],
     [raises |-> FALSE,
      cues |-> <<Cue(<<"I", "n", " ", "t", "h", "e">>, 0), Cue(<<" ", "b", "e", "g", "i", "n", "n", "i", "n", "g", ".", " ">>, 2), Cue(<<" ", " ">>, 3),
                 Cue(<<"W", "a", "s", " ", "i", "t", "?">>, 5), Cue(<<"t", "h", "e", " ", "w", "o", "r", "d">>, 7)>>],
     [raises |-> FALSE,
      cues |-> <<Cue(<<"A", "m", "a", "z", "i", "n", "g">>, 4), Cue(<<"g", "r", "a", "c", "e", "!">>, 6)>>],
     [raises |-> FALSE, cues |-> <<Cue(<<" ">>, 1)>>],
     [raises |-> FALSE,
      cues |-> <<Cue(<<"S", "o", ".">>, 0), Cue(<<"S", "o", ".">>, 8)>>],
     [raises |-> FALSE, cues |-> <<Cue(<<"n", "o", " ", "e", "n", "d">>, 9)>>],
     [raises |-> FALSE,
      cues |-> <<Cue(<<>>, 0), Cue(<<"G", "o", ".">>, 1), Cue(<<"n", "o", "w">>, 2),
                 Cue(<<"t", "h", "e", "n", "?">>, 3), Cue(<<>>, 4)>>]}

\* the texts handed to get_sentences_with_timestamps
SentenceTexts == {<<>>, <<"A", "m", "a", "z", "i", "n", "g", " ", "g", "r", "a", "c", "e", "!">>}

InitCues ==
    /\ AppInit /\ UrlIdle /\ IdIdle /\ CueIdle /\ TextIdle /\ StoreReady /\ AiIdle

cuesFrame == <<input_text, urlVars, appVars, idVars, storeVars, aiVars>>

\* extract_transcript(video_id, raw)
ExtractTranscript ==
    /\ \E api \in CueApiResults, raw \in BOOLEAN :
          /\ last_transcript' = KeptAfter(last_transcript, api, raw)
          /\ cue_history' = IF raw THEN cue_history ELSE api.cues
          /\ result' = [fn |-> "extract_transcript", args |-> <<raw>>,
                        value |-> ReturnedTranscript(api, raw)]
    /\ UNCHANGED cuesFrame

\* get_sentences_with_timestamps(transcript)
GetSentences ==
    /\ \E transcript \in SentenceTexts :
          result' = [fn |-> "get_sentences_with_timestamps", args |-> <<transcript>>,
                     value |-> get_sentences_with_timestamps(transcript, last_transcript)]
    /\ UNCHANGED <<cueVars, cuesFrame>>

NextCues ==
    \/ ExtractTranscript
    \/ GetSentences

SpecCues == InitCues /\ [][NextCues]_vars

\* the cues of a list that are not blank, stripped, in order
RECURSIVE Spoken(_)
Spoken(cues) ==
    IF cues = <<>> THEN <<>>
    ELSE (IF Strip(Head(cues).text) = <<>> THEN <<>>
          ELSE <<Cue(Strip(Head(cues).text), Head(cues).start)>>)
         \o Spoken(Tail(cues))

\* the places of the spoken cues that begin a sentence: the first, and each
\* one after a cue that ends in '.', '!' or '?'
SentenceStarts(spoken) ==
    {k \in 1..Len(spoken) : k = 1 \/ EndsSentence(spoken[k - 1].text)}

\* the sentences are the spoken cues in order, each once, cut where a cue
\* ends a sentence, and each carries the start time of its first cue
SentencesCover(sentences, cues) ==
    LET spoken == Spoken(cues)
    IN  /\ Len(sentences) = Cardinality(SentenceStarts(spoken))
        /\ Join([k \in 1..Len(sentences) |-> sentences[k].text], <<" ">>)
              = Join([k \in 1..Len(spoken) |-> spoken[k].text], <<" ">>)
        /\ \A i \in 1..Len(sentences) :
              \E k \in SentenceStarts(spoken) :
                  /\ Cardinality({j \in SentenceStarts(spoken) : j <= k}) = i
                  /\ sentences[i].start = spoken[k].start

====
